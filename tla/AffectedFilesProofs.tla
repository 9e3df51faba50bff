------------------------- MODULE AffectedFilesProofs -------------------------
(***************************************************************************)
(* Proof that get-affected-files.py prints the closure of the diff under   *)
(* its includers, for every tree, every set of #include "sub/x.h" lines    *)
(* and every diff the constants allow.                                     *)
(***************************************************************************)
EXTENDS AffectedFiles, SequenceTheorems, TLAPS

\* What the script has read and built so far, by the line it is at.
Phases ==
    /\ includes \in [Files -> SUBSET Directives]
    /\ diff \subseteq Files
    /\ pc \in {"upstream", "build", "update", "loop", "done", "exit"}
    /\ pc \in {"upstream", "build", "update"} => changed = {}
    /\ pc \in {"build", "update"} => newchanged = diff
    /\ pc = "update" => hdr_db = BuildHeaderDatabase("src")

\* The database after update(): both walks, every file under either root.
FullDb == [k \in Keys |-> {f \in Files : k \in GetIncludedFiles(GetIncludes(f))}]

\* After update(): each name maps to every file, under either root, that includes it.
DbBuilt == pc \in {"loop", "done"} => hdr_db = FullDb

(***************************************************************************)
(* The loop invariant: what the loop has found is affected, the diff is    *)
(* in it, and every includer of a file already handled has been found;     *)
(* once the loop is over nothing new is pending.                           *)
(***************************************************************************)
Closing ==
    pc \in {"loop", "done"} =>
        /\ changed \cup newchanged \subseteq Affected
        /\ diff \subseteq changed \cup newchanged
        /\ \A g \in changed, f \in Files : IncludesFile(f, g) => f \in changed \cup newchanged
        /\ pc = "done" => newchanged \subseteq changed

IInv == Phases /\ DbBuilt /\ Closing
-----------------------------------------------------------------------------
(* What a quoted name stands for *)

\* A "sub/x.h" name is a two-component path.
LEMMA DirectivePair ==
  ASSUME ~AllowBare, NEW d \in Directives
  PROVE  \E sd \in Subs, h \in Headers : d = <<sd, h>> /\ Len(d) = 2
  BY DEF Directives

\* A header root prefixed to "sub/x.h" is the path root/sub/x.h.
LEMMA Prefixed ==
  ASSUME NEW hd, NEW sd, NEW h
  PROVE  <<hd>> \o <<sd, h>> = <<hd, sd, h>>
  <1> DEFINE S == {hd, sd, h}
  <1>1. <<hd>> \in Seq(S) /\ <<sd, h>> \in Seq(S) /\ <<hd, sd, h>> \in Seq(S)
    OBVIOUS
  <1>2. /\ <<hd>> \o <<sd, h>> \in Seq(S)
        /\ Len(<<hd>> \o <<sd, h>>) = 3
        /\ \A i \in 1..3 : (<<hd>> \o <<sd, h>>)[i] = IF i <= 1 THEN hd ELSE <<sd, h>>[i - 1]
    BY <1>1, ConcatProperties
  <1>3. \A i \in 1..3 : (<<hd>> \o <<sd, h>>)[i] = <<hd, sd, h>>[i]
    BY <1>2
  <1>4. QED
    BY <1>1, <1>2, <1>3, SeqEqual

\* The name a "sub/x.h" line is filed under, for either root, is a path root/sub/x.h.
LEMMA KeyOfDirective ==
  ASSUME ~AllowBare, NEW d \in Directives, NEW hd
  PROVE  \E sd \in Subs, h \in Headers : d = <<sd, h>> /\ <<hd>> \o d = <<hd, sd, h>>
  <1>1. PICK sd \in Subs, h \in Headers : d = <<sd, h>>
    BY DirectivePair
  <1>2. <<hd>> \o <<sd, h>> = <<hd, sd, h>>
    BY Prefixed
  <1>3. QED
    BY <1>1, <1>2

\* The names GetIncludedFiles makes of a set of names: each under each root.
LEMMA InIncluded ==
  ASSUME NEW S, NEW x
  PROVE  x \in GetIncludedFiles(S) <=> \E d \in S : \E hd \in HEADER_DIRS : x = <<hd>> \o d
  <1>1. ASSUME x \in GetIncludedFiles(S) PROVE \E d \in S : \E hd \in HEADER_DIRS : x = <<hd>> \o d
    <2>1. PICK d \in S : x \in {<<hd>> \o d : hd \in HEADER_DIRS}
      BY <1>1 DEF GetIncludedFiles
    <2>2. QED
      BY <2>1
  <1>2. ASSUME NEW d \in S, NEW hd \in HEADER_DIRS, x = <<hd>> \o d PROVE x \in GetIncludedFiles(S)
    BY <1>2 DEF GetIncludedFiles
  <1>3. QED
    BY <1>1, <1>2

\* A name with a '/' is looked up under each root.
LEMMA ResolvesPath ==
  ASSUME NEW f, NEW d, Len(d) # 1
  PROVE  Resolves(f, d) = {<<hd>> \o d : hd \in HEADER_DIRS}
  BY Zenon DEF Resolves

(***************************************************************************)
(* With no bare names, f includes g exactly when g is one of the keys      *)
(* BuildHeaderDatabase files f under.                                      *)
(***************************************************************************)
LEMMA IncludesIff ==
  ASSUME ~AllowBare, includes \in [Files -> SUBSET Directives],
         NEW f \in Files, NEW g
  PROVE  IncludesFile(f, g) <=> g \in GetIncludedFiles(GetIncludes(f))
  <1>1. \A d \in includes[f] : Len(d) = 2
    BY DirectivePair
  <1>2. \A d \in includes[f] : (IF Len(d) = 1 THEN Dirname(f) \o d ELSE d) = d
    BY <1>1
  <1>3. Basename(f) \in Headers \cup Sources => GetIncludes(f) = includes[f]
    <2>1. Basename(f) \in Headers \cup Sources =>
            GetIncludes(f) = {IF Len(d) = 1 THEN Dirname(f) \o d ELSE d : d \in includes[f]}
      BY DEF GetIncludes
    <2>2. QED
      BY <1>2, <2>1
  <1>4. Basename(f) \notin Headers \cup Sources => GetIncludes(f) = {}
    BY DEF GetIncludes
  <1>5. \A d \in includes[f] : Resolves(f, d) = {<<hd>> \o d : hd \in HEADER_DIRS}
    <2>1. \A d \in includes[f] : Len(d) # 1
      BY <1>1
    <2>2. QED
      BY <2>1, ResolvesPath
  <1>6. CASE Basename(f) \in Headers \cup Sources
    <2>1. IncludesFile(f, g) <=> \E d \in includes[f] : \E hd \in HEADER_DIRS : g = <<hd>> \o d
      BY <1>5, <1>6 DEF IncludesFile
    <2>2. g \in GetIncludedFiles(GetIncludes(f)) <=>
            \E d \in includes[f] : \E hd \in HEADER_DIRS : g = <<hd>> \o d
      BY <1>3, <1>6, InIncluded
    <2>3. QED
      BY <2>1, <2>2
  <1>7. CASE Basename(f) \notin Headers \cup Sources
    <2>1. ~IncludesFile(f, g)
      BY <1>7 DEF IncludesFile
    <2>2. g \notin GetIncludedFiles(GetIncludes(f))
      BY <1>4, <1>7, InIncluded
    <2>3. QED
      BY <2>1, <2>2
  <1>8. QED
    BY <1>6, <1>7

\* Every name GetIncludedFiles produces is a key of the database.
LEMMA IncludedAreKeys ==
  ASSUME ~AllowBare, includes \in [Files -> SUBSET Directives], NEW f \in Files
  PROVE  GetIncludedFiles(GetIncludes(f)) \subseteq Keys
  <1>1. GetIncludes(f) \subseteq includes[f]
    <2>1. \A d \in includes[f] : (IF Len(d) = 1 THEN Dirname(f) \o d ELSE d) = d
      BY DirectivePair
    <2>2. QED
      BY <2>1 DEF GetIncludes
  <1>2. GetIncludes(f) \subseteq Directives
    BY <1>1
  <1>3. ASSUME NEW x \in GetIncludedFiles(GetIncludes(f)) PROVE x \in Keys
    <2>1. PICK inc \in GetIncludes(f), hd \in HEADER_DIRS : x = <<hd>> \o inc
      BY InIncluded
    <2>2. inc \in Directives
      BY <1>2
    <2>3. QED
      BY <2>1, <2>2 DEF Keys
  <1>4. QED
    BY <1>3

\* A file that includes g names a header: g is root/sub/x.h with x.h a header.
LEMMA IncludedIsHeader ==
  ASSUME ~AllowBare, includes \in [Files -> SUBSET Directives],
         NEW f \in Files, NEW g, IncludesFile(f, g)
  PROVE  Basename(g) \in Headers
  <1>1. PICK d \in includes[f] : g \in Resolves(f, d)
    BY DEF IncludesFile
  <1>2. Len(d) # 1
    BY DirectivePair
  <1>3. PICK hd \in HEADER_DIRS : g = <<hd>> \o d
    BY <1>1, <1>2, ResolvesPath
  <1>4. PICK sd \in Subs, h \in Headers : d = <<sd, h>> /\ <<hd>> \o d = <<hd, sd, h>>
    BY KeyOfDirective
  <1>5. QED
    BY <1>3, <1>4 DEF Basename
-----------------------------------------------------------------------------
(* The database and the closure *)

\* Merging the walk of include/ into that of src/ files every file under each of its names.
LEMMA DbMerged ==
  [k \in Keys |-> BuildHeaderDatabase("src")[k] \cup BuildHeaderDatabase("include")[k]] = FullDb
  <1>1. \A f \in Files : f[1] \in {"src", "include"}
    BY DEF Files, HEADER_DIRS
  <1>2. \A k \in Keys : BuildHeaderDatabase("src")[k] \cup BuildHeaderDatabase("include")[k]
                          = {f \in Files : k \in GetIncludedFiles(GetIncludes(f))}
    BY <1>1 DEF BuildHeaderDatabase
  <1>3. QED
    BY <1>2 DEF FullDb

(***************************************************************************)
(* Over the full database, the loop's lookup yields exactly the files that *)
(* include one of S.                                                       *)
(***************************************************************************)
LEMMA IncludersIff ==
  ASSUME ~AllowBare, includes \in [Files -> SUBSET Directives], hdr_db = FullDb,
         NEW S \in SUBSET Files
  PROVE  Includers(S) = {f \in Files : \E g \in S : IncludesFile(f, g)}
  <1>1. ASSUME NEW f \in Includers(S) PROVE f \in Files /\ \E g \in S : IncludesFile(f, g)
    <2>1. PICK g \in {g \in S : Basename(g) \in Headers} :
                 f \in (IF g \in Keys THEN hdr_db[g] ELSE {})
      BY DEF Includers
    <2>2. g \in Keys /\ f \in Files /\ g \in GetIncludedFiles(GetIncludes(f))
      BY <2>1 DEF FullDb
    <2>3. QED
      BY <2>1, <2>2, IncludesIff
  <1>2. ASSUME NEW f \in Files, NEW g \in S, IncludesFile(f, g) PROVE f \in Includers(S)
    <2>1. Basename(g) \in Headers
      BY <1>2, IncludedIsHeader
    <2>2. g \in GetIncludedFiles(GetIncludes(f))
      BY <1>2, IncludesIff
    <2>3. g \in Keys
      BY <2>2, IncludedAreKeys
    <2>4. f \in hdr_db[g]
      BY <2>2, <2>3 DEF FullDb
    <2>5. QED
      BY <2>1, <2>3, <2>4 DEF Includers
  <1>3. QED
    BY <1>1, <1>2

\* An includer of an affected file is affected.
LEMMA AffectedIncluder ==
  ASSUME NEW g \in Affected, NEW f \in Files, IncludesFile(f, g)
  PROVE  f \in Affected
  BY DEF Affected, ClosedUnderIncluders

\* The changed files are affected.
LEMMA DiffAffected ==
  ASSUME diff \subseteq Files PROVE diff \subseteq Affected
  BY DEF Affected, ClosedUnderIncluders

\* The affected files are in every set of files closed under includers.
LEMMA LeastClosed ==
  ASSUME NEW C \in SUBSET Files, ClosedUnderIncluders(C) PROVE Affected \subseteq C
  BY DEF Affected
-----------------------------------------------------------------------------
(* The invariant *)

LEMMA IInvInit == Init => IInv
  <1> SUFFICES ASSUME Init PROVE IInv
    OBVIOUS
  <1>1. diff \subseteq Files
    BY DEF Init
  <1>2. QED
    BY <1>1 DEF Init, IInv, Phases, DbBuilt, Closing

\* The script never rereads the tree or the diff, so what is affected stays put.
LEMMA AffectedFixed ==
  ASSUME includes' = includes, diff' = diff PROVE Affected' = Affected
  BY DEF Affected, ClosedUnderIncluders, IncludesFile

LEMMA IInvStep == ~AllowBare /\ IInv /\ [Next]_vars => IInv'
  <1> SUFFICES ASSUME ~AllowBare, IInv, [Next]_vars PROVE IInv'
    OBVIOUS
  <1>0. includes' = includes /\ diff' = diff /\ Affected' = Affected
    <2>1. includes' = includes /\ diff' = diff
      BY DEF Next, GetUpstream, BuildSrc, UpdateHeaderDatabase, LoopRound, LoopExit, vars
    <2>2. QED
      BY <2>1, AffectedFixed
  <1>00. FullDb' = FullDb /\ BuildHeaderDatabase("src")' = BuildHeaderDatabase("src")
    BY <1>0 DEF FullDb, BuildHeaderDatabase, GetIncludes
  <1>1. CASE GetUpstream
    <2>1. UNCHANGED <<hdr_db, changed>> /\ pc = "upstream"
          /\ pc' \in {"build", "exit"} /\ (pc' = "build" => newchanged' = diff)
      BY <1>1 DEF GetUpstream
    <2>2. QED
      BY <1>0, <2>1 DEF IInv, Phases, DbBuilt, Closing
  <1>2. CASE BuildSrc
    <2>1. UNCHANGED <<changed, newchanged>> /\ pc = "build" /\ pc' = "update"
          /\ hdr_db' = BuildHeaderDatabase("src")
      BY <1>2 DEF BuildSrc
    <2>2. QED
      BY <1>0, <1>00, <2>1 DEF IInv, Phases, DbBuilt, Closing
  <1>3. CASE UpdateHeaderDatabase
    <2>1. hdr_db' = FullDb
      BY <1>3, DbMerged DEF UpdateHeaderDatabase, IInv, Phases
    <2>2. changed' = {} /\ newchanged' = diff /\ pc' = "loop"
      BY <1>3 DEF UpdateHeaderDatabase, IInv, Phases
    <2>3. diff \subseteq Affected
      BY DiffAffected DEF IInv, Phases
    <2>4. Phases'
      BY <1>0, <2>2 DEF IInv, Phases
    <2>5. DbBuilt'
      BY <1>00, <2>1 DEF DbBuilt
    <2>6. Closing'
      BY <1>0, <2>2, <2>3 DEF Closing
    <2>7. QED
      BY <2>4, <2>5, <2>6 DEF IInv
  <1>4. CASE LoopRound
    <2> DEFINE C == changed \cup newchanged
    <2>1. changed' = C /\ newchanged' = Includers(C) /\ pc' = "loop" /\ pc = "loop"
          /\ hdr_db' = hdr_db
      BY <1>4 DEF LoopRound
    <2>2. C \subseteq Affected /\ diff \subseteq C
          /\ \A g \in changed, f \in Files : IncludesFile(f, g) => f \in C
      BY <2>1 DEF IInv, Closing
    <2>3. C \subseteq Files
      BY <2>2 DEF Affected
    <2>4. Includers(C) = {f \in Files : \E g \in C : IncludesFile(f, g)}
      BY <2>1, <2>3, IncludersIff DEF IInv, Phases, DbBuilt
    <2>5. Includers(C) \subseteq Affected
      BY <2>2, <2>4, AffectedIncluder
    <2>6. \A g \in C, f \in Files : IncludesFile(f, g) => f \in Includers(C)
      BY <2>4
    <2>7. \A g \in changed', f \in Files : IncludesFile(f, g)' => f \in changed' \cup newchanged'
      <3>1. \A f, g : IncludesFile(f, g)' = IncludesFile(f, g)
        BY <1>0 DEF IncludesFile
      <3>2. QED
        BY <2>1, <2>6, <3>1
    <2>8. Closing'
      BY <1>0, <2>1, <2>2, <2>5, <2>7 DEF Closing
    <2>9. Phases' /\ DbBuilt'
      BY <1>0, <1>00, <2>1 DEF IInv, Phases, DbBuilt
    <2>10. QED
      BY <2>8, <2>9 DEF IInv
  <1>5. CASE LoopExit
    <2>1. UNCHANGED <<hdr_db, changed, newchanged>> /\ pc = "loop" /\ pc' = "done"
          /\ newchanged \subseteq changed
      BY <1>5 DEF LoopExit
    <2>2. \A f, g : IncludesFile(f, g)' = IncludesFile(f, g)
      BY <1>0 DEF IncludesFile
    <2>3. Closing'
      BY <1>0, <2>1, <2>2 DEF IInv, Closing
    <2>4. QED
      BY <1>0, <1>00, <2>1, <2>3 DEF IInv, Phases, DbBuilt
  <1>6. CASE UNCHANGED vars
    <2>1. UNCHANGED <<hdr_db, changed, newchanged, pc>>
      BY <1>6 DEF vars
    <2>2. \A f, g : IncludesFile(f, g)' = IncludesFile(f, g)
      BY <1>0 DEF IncludesFile
    <2>3. QED
      BY <1>0, <1>00, <2>1, <2>2 DEF IInv, Phases, DbBuilt, Closing
  <1>7. QED
    BY <1>1, <1>2, <1>3, <1>4, <1>5, <1>6 DEF Next

\* Once the loop is over, what the invariant knows is the closure.
LEMMA IInvClosure == IInv => AffectedIsClosure
  <1> SUFFICES ASSUME IInv, pc = "done" PROVE changed = Affected
    BY DEF AffectedIsClosure
  <1>1. changed \subseteq Affected /\ diff \subseteq changed
        /\ \A g \in changed, f \in Files : IncludesFile(f, g) => f \in changed
    BY DEF IInv, Closing
  <1>2. changed \subseteq Files
    BY <1>1 DEF Affected
  <1>3. ClosedUnderIncluders(changed)
    BY <1>1 DEF ClosedUnderIncluders
  <1>4. QED
    BY <1>1, <1>2, <1>3, LeastClosed

(***************************************************************************)
(* For every tree, every set of #include "sub/x.h" lines and every diff,   *)
(* what get-affected-files.py prints when it ends is the transitive        *)
(* closure of the diff under header includers: the fixpoint loop over the  *)
(* database merged from src/ and include/ stops neither early nor late.    *)
(* Bare #include "x.h" names are excluded: with them the script misses     *)
(* includers (the run affected_bare_include).                              *)
(***************************************************************************)
THEOREM AffectedClosure ==
  ASSUME ~AllowBare
  PROVE  Spec => []AffectedIsClosure
  <1>1. Spec => []IInv
    BY IInvInit, IInvStep, PTL DEF Spec
  <1>2. QED
    BY <1>1, IInvClosure, PTL
=============================================================================
