------------------------------- MODULE AllCls -------------------------------
(***************************************************************************)
(* get_all_cls of poller.py: the loop over the lines of git ls-remote      *)
(* that keeps, per CL, the highest patchset among the refs                 *)
(* refs/changes/<cl1>/<cl2>/<patchset>.  A line either matches the ref     *)
(* pattern, and is reduced to its CL (cl1 + cl2) and patchset number, or   *)
(* does not (the service line, branches, tags, .../meta refs) and is       *)
(* skipped.  The lines are every sequence of up to MaxLen such lines.      *)
(***************************************************************************)
EXTENDS Naturals, Sequences, FiniteSets

CONSTANTS
    CLs,      \* the change numbers the refs name
    MaxPs,    \* the largest patchset number on a line
    MaxLen,   \* the longest ls-remote output considered
    Junk      \* a line the pattern does not match

ASSUME AllClsAssumption ==
    /\ MaxPs \in Nat /\ MaxLen \in Nat
    /\ Junk \notin [cl : CLs, ps : 0..MaxPs]

Line == [cl : CLs, ps : 0..MaxPs] \cup {Junk}

VARIABLES
    lines,          \* fetch.content.splitlines()
    i,              \* the next line of the loop
    last_patchset   \* the defaultdict(int), as a function on its keys

vars == <<lines, i, last_patchset>>

TypeOK ==
    /\ lines \in Seq(Line)
    /\ i \in 1..Len(lines) + 1
    /\ \E keys \in SUBSET CLs : last_patchset \in [keys -> 0..MaxPs]

Init ==
    /\ lines \in UNION {[1..n -> Line] : n \in 0..MaxLen}
    /\ i = 1
    /\ last_patchset = <<>>

\* last_patchset[cl]: a defaultdict reads 0 for a key it does not hold.
Get(f, cl) == IF cl \in DOMAIN f THEN f[cl] ELSE 0

\* f with cl (possibly a new key) mapped to v.
Put(f, cl, v) == [c \in DOMAIN f \cup {cl} |-> IF c = cl THEN v ELSE f[c]]

\* Mutant: the patchset of the last line wins, not the largest.
ReadLineLastWins ==
    /\ i <= Len(lines)
    /\ LET l == lines[i]
       IN  last_patchset' = IF l = Junk THEN last_patchset
                            ELSE Put(last_patchset, l.cl, l.ps)
    /\ i' = i + 1
    /\ UNCHANGED lines

(***************************************************************************)
(* One iteration: a line the regex does not match is skipped (continue);   *)
(* otherwise last_patchset[cl] = max(last_patchset[cl], patchset).          *)
(***************************************************************************)
ReadLine ==
    /\ i <= Len(lines)
    /\ LET l == lines[i]
       IN  last_patchset' =
             IF l = Junk THEN last_patchset
             ELSE Put(last_patchset, l.cl,
                      IF Get(last_patchset, l.cl) >= l.ps
                        THEN Get(last_patchset, l.cl) ELSE l.ps)
    /\ i' = i + 1
    /\ UNCHANGED lines

Next == ReadLine

Spec == Init /\ [][Next]_vars

-----------------------------------------------------------------------------
\* The reference: each CL named by some ref, to the largest of its patchsets.
Refs(s) == {s[k] : k \in {k \in 1..Len(s) : s[k] # Junk}}
MaxPatchsets(s) ==
    [cl \in {r.cl : r \in Refs(s)} |->
        CHOOSE p \in {r.ps : r \in {r \in Refs(s) : r.cl = cl}} :
            \A r \in Refs(s) : r.cl = cl => r.ps <= p]

(***************************************************************************)
(* When the loop is over, get_all_cls returns exactly the CLs with a ref,  *)
(* each with its highest patchset, whatever order ls-remote lists the refs *)
(* in (it sorts them as strings: .../10 before .../2).                     *)
(***************************************************************************)
GetAllClsIsMax == i = Len(lines) + 1 => last_patchset = MaxPatchsets(lines)
=============================================================================
