---------------------------- MODULE AllClsProofs ----------------------------
(***************************************************************************)
(* Proof that the loop of get_all_cls computes, for every ls-remote output *)
(* and every value of the constants, the largest patchset of each CL.      *)
(***************************************************************************)
EXTENDS AllCls, TLAPS

\* The refs among the first n lines.
Seen(n) == {lines[k] : k \in {k \in 1..n : lines[k] # Junk}}

(***************************************************************************)
(* The loop invariant: after the first i - 1 lines, last_patchset holds    *)
(* exactly the CLs those lines name, each with a patchset some line gives  *)
(* it and no line exceeds.                                                 *)
(***************************************************************************)
Tracks ==
    /\ DOMAIN last_patchset = {r.cl : r \in Seen(i - 1)}
    /\ \A cl \in DOMAIN last_patchset :
          /\ \E r \in Seen(i - 1) : r.cl = cl /\ r.ps = last_patchset[cl]
          /\ \A r \in Seen(i - 1) : r.cl = cl => r.ps <= last_patchset[cl]

IInv == TypeOK /\ Tracks
\* The refs among the first n lines grow by the n-th line, unless it is junk.
LEMMA SeenNext ==
  ASSUME NEW n \in Nat, lines \in Seq(Line), n + 1 \in 1..Len(lines)
  PROVE  Seen(n + 1) = Seen(n) \cup (IF lines[n + 1] = Junk THEN {} ELSE {lines[n + 1]})
  BY DEF Seen

\* No line is read yet: last_patchset is the empty defaultdict.
LEMMA IInvInit == Init => IInv
  <1> SUFFICES ASSUME Init PROVE IInv
    OBVIOUS
  <1>1. lines \in Seq(Line)
    <2>1. PICK n \in 0..MaxLen : lines \in [1..n -> Line]
      BY DEF Init
    <2>2. QED
      BY <2>1, AllClsAssumption
  <1>2. Seen(i - 1) = {} /\ DOMAIN last_patchset = {}
    BY DEF Init, Seen
  <1>3. TypeOK
    <2>1. last_patchset \in [{} -> 0..MaxPs]
      BY <1>2 DEF Init
    <2>2. \E keys \in SUBSET CLs : last_patchset \in [keys -> 0..MaxPs]
      BY <2>1
    <2>3. i \in 1..Len(lines) + 1
      BY <1>1 DEF Init
    <2>4. QED
      BY <1>1, <2>2, <2>3 DEF TypeOK
  <1>4. QED
    BY <1>2, <1>3 DEF IInv, Tracks

\* One iteration keeps the loop invariant.
LEMMA IInvStep == IInv /\ [Next]_vars => IInv'
  <1> SUFFICES ASSUME IInv, [Next]_vars PROVE IInv'
    OBVIOUS
  <1>1. CASE UNCHANGED vars
    <2>1. lines' = lines /\ i' = i /\ last_patchset' = last_patchset
      BY <1>1 DEF vars
    <2>2. Seen(i - 1)' = Seen(i - 1)
      BY <2>1 DEF Seen
    <2>3. QED
      BY <2>1, <2>2 DEF IInv, TypeOK, Tracks
  <1>2. CASE ReadLine
    <2> DEFINE l == lines[i]
    <2>1. /\ lines \in Seq(Line) /\ i \in 1..Len(lines) /\ i' = i + 1 /\ lines' = lines
          /\ l \in Line
      BY <1>2 DEF ReadLine, IInv, TypeOK
    <2>2. Seen(i - 1)' = Seen(i - 1) \cup (IF l = Junk THEN {} ELSE {l})
      <3>1. i - 1 \in Nat /\ (i - 1) + 1 \in 1..Len(lines)
        BY <2>1
      <3>2. Seen(i - 1)' = Seen(i)
        <4>1. i' - 1 = i
          BY <2>1
        <4>2. QED
          BY <2>1, <4>1 DEF Seen
      <3>3. QED
        BY <2>1, <3>1, <3>2, SeenNext
    <2>3. PICK keys \in SUBSET CLs : last_patchset \in [keys -> 0..MaxPs]
      BY DEF IInv, TypeOK
    <2>4. CASE l = Junk
      <3>1. last_patchset' = last_patchset /\ Seen(i - 1)' = Seen(i - 1)
        BY <1>2, <2>2, <2>4 DEF ReadLine
      <3>2. i' \in 1..Len(lines') + 1
        BY <2>1
      <3>3. TypeOK'
        BY <2>1, <2>3, <3>1, <3>2 DEF TypeOK
      <3>4. Tracks'
        BY <3>1 DEF IInv, Tracks
      <3>5. QED
        BY <3>3, <3>4 DEF IInv
    <2>5. CASE l # Junk
      <3> DEFINE old == Get(last_patchset, l.cl)
                 new == IF old >= l.ps THEN old ELSE l.ps
      <3>1. l \in [cl : CLs, ps : 0..MaxPs]
        BY <2>1, <2>5 DEF Line
      <3>2. old \in 0..MaxPs /\ new \in 0..MaxPs /\ old <= new /\ l.ps <= new
        BY <2>3, <3>1, AllClsAssumption DEF Get
      <3>3. last_patchset' = Put(last_patchset, l.cl, new)
        BY <1>2, <2>5 DEF ReadLine
      <3>4. Seen(i - 1)' = Seen(i - 1) \cup {l}
        BY <2>2, <2>5
      <3>5. DOMAIN last_patchset' = DOMAIN last_patchset \cup {l.cl}
            /\ last_patchset'[l.cl] = new
            /\ \A c \in DOMAIN last_patchset : c # l.cl => last_patchset'[c] = last_patchset[c]
        BY <3>3 DEF Put
      <3>6. TypeOK'
        <4>1. last_patchset' \in [keys \cup {l.cl} -> 0..MaxPs]
          BY <2>3, <3>2, <3>3 DEF Put
        <4>2. keys \cup {l.cl} \in SUBSET CLs
          BY <3>1
        <4>3. i' \in 1..Len(lines') + 1
          BY <2>1
        <4>4. QED
          BY <2>1, <4>1, <4>2, <4>3 DEF TypeOK
      <3>7. DOMAIN last_patchset' = {r.cl : r \in Seen(i - 1)'}
        BY <3>4, <3>5 DEF IInv, Tracks
      <3>8. \E r \in Seen(i - 1)' : r.cl = l.cl /\ r.ps = last_patchset'[l.cl]
        <4>1. CASE old >= l.ps /\ l.cl \in DOMAIN last_patchset
          <5>1. PICK r \in Seen(i - 1) : r.cl = l.cl /\ r.ps = last_patchset[l.cl]
            BY <4>1 DEF IInv, Tracks
          <5>2. QED
            BY <3>4, <3>5, <4>1, <5>1 DEF Get
        <4>2. CASE old >= l.ps /\ l.cl \notin DOMAIN last_patchset
          BY <3>1, <3>4, <3>5, <4>2 DEF Get
        <4>3. CASE ~(old >= l.ps)
          BY <3>4, <3>5, <4>3
        <4>4. QED
          BY <4>1, <4>2, <4>3
      <3>9. \A r \in Seen(i - 1)' : r.cl = l.cl => r.ps <= last_patchset'[l.cl]
        <4>1. \A r \in Seen(i - 1) : r.cl = l.cl => r.ps <= old
          BY DEF IInv, Tracks, Get, Seen
        <4>2. \A r \in Seen(i - 1) : r.ps \in Nat
          BY <2>1, AllClsAssumption DEF Seen, Line
        <4>3. QED
          BY <3>2, <3>4, <3>5, <4>1, <4>2
      <3>10. ASSUME NEW c \in DOMAIN last_patchset, c # l.cl
             PROVE  /\ \E r \in Seen(i - 1)' : r.cl = c /\ r.ps = last_patchset'[c]
                    /\ \A r \in Seen(i - 1)' : r.cl = c => r.ps <= last_patchset'[c]
        BY <3>4, <3>5, <3>10 DEF IInv, Tracks
      <3>11. ASSUME NEW c \in DOMAIN last_patchset'
             PROVE  /\ \E r \in Seen(i - 1)' : r.cl = c /\ r.ps = last_patchset'[c]
                    /\ \A r \in Seen(i - 1)' : r.cl = c => r.ps <= last_patchset'[c]
        <4>1. CASE c = l.cl
          BY <3>8, <3>9, <4>1
        <4>2. CASE c # l.cl
          BY <3>5, <3>10, <4>2
        <4>3. QED
          BY <4>1, <4>2
      <3>12. QED
        BY <3>6, <3>7, <3>11 DEF IInv, Tracks
    <2>6. QED
      BY <2>4, <2>5
  <1>3. QED
    BY <1>1, <1>2 DEF Next

\* After the last line, the loop invariant is the reference's definition.
LEMMA IInvMax == IInv => GetAllClsIsMax
  <1> SUFFICES ASSUME IInv, i = Len(lines) + 1 PROVE last_patchset = MaxPatchsets(lines)
    BY DEF GetAllClsIsMax
  <1>1. Seen(i - 1) = Refs(lines)
    BY DEF Seen, Refs, IInv, TypeOK
  <1>2. DOMAIN last_patchset = {r.cl : r \in Refs(lines)}
    BY <1>1 DEF IInv, Tracks
  <1>3. \A r \in Refs(lines) : r.ps \in Nat
    BY AllClsAssumption DEF IInv, TypeOK, Refs, Line
  <1>4. ASSUME NEW cl \in DOMAIN last_patchset
        PROVE  last_patchset[cl] =
                 CHOOSE p \in {r.ps : r \in {r \in Refs(lines) : r.cl = cl}} :
                   \A r \in Refs(lines) : r.cl = cl => r.ps <= p
    <2> DEFINE P(p) == \A r \in Refs(lines) : r.cl = cl => r.ps <= p
               S == {r.ps : r \in {r \in Refs(lines) : r.cl = cl}}
    <2>1. last_patchset[cl] \in S /\ P(last_patchset[cl])
      BY <1>1 DEF IInv, Tracks
    <2>2. \A p \in S : P(p) => p = last_patchset[cl]
      BY <1>3, <2>1
    <2>3. QED
      BY <2>1, <2>2
  <1>5. PICK keys \in SUBSET CLs : last_patchset \in [keys -> 0..MaxPs]
    BY DEF IInv, TypeOK
  <1>6. QED
    BY <1>2, <1>4, <1>5 DEF MaxPatchsets

(***************************************************************************)
(* get_all_cls returns, for every ls-remote output of any length, over any *)
(* CLs and patchsets, exactly the CLs some ref names, each with the        *)
(* largest patchset a ref gives it, whatever order the refs come in.       *)
(***************************************************************************)
THEOREM AllClsMax == Spec => []GetAllClsIsMax
  BY IInvInit, IInvStep, IInvMax, PTL DEF Spec
=============================================================================
