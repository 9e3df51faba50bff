---------------------------- MODULE AffectedFiles ----------------------------
(***************************************************************************)
(* tools/get-affected-files.py: from the files git diff names against the  *)
(* upstream, the transitive closure of the files that include a changed    *)
(* header.  BuildHeaderDatabase walks src/ and then include/, and maps     *)
(* every name an #include "..." line may stand for (the line prefixed by   *)
(* each of HEADER_DIRS; a name with no '/' first joined to the including   *)
(* file's directory) to the files that hold the line.  The main loop then  *)
(* adds the includers of every changed header until nothing new comes.     *)
(*                                                                         *)
(* A path is the sequence of its components; a file is root/sub/base.  The *)
(* tree, the #include lines of each file and the diff are any of the      *)
(* small ones the constants allow.                                         *)
(***************************************************************************)
EXTENDS Naturals, Sequences, FiniteSets

CONSTANTS
    Subs,       \* the directories under src/ and include/
    Headers,    \* base names ending in .h
    Sources,    \* base names ending in .cc
    Others,     \* any other base name (.py, .gn, ...)
    AllowBare   \* whether an #include may name a header with no '/'

ASSUME AffectedFilesAssumption ==
    /\ Headers \cap Sources = {} /\ Headers \cap Others = {} /\ Sources \cap Others = {}
    /\ AllowBare \in BOOLEAN

HEADER_DIRS == {"include", "src"}

Bases == Headers \cup Sources \cup Others

Files == {<<r, s, b>> : r \in HEADER_DIRS, s \in Subs, b \in Bases}

Dirname(f) == SubSeq(f, 1, Len(f) - 1)
Basename(f) == f[Len(f)]

\* The quoted names an #include line may hold: "sub/x.h", or "x.h".
Directives ==
    {<<s, h>> : s \in Subs, h \in Headers}
        \cup (IF AllowBare THEN {<<h>> : h \in Headers} ELSE {})

\* Every name GetIncludedFiles can produce: a key of the header database.
Keys == {<<hd>> \o d : hd \in HEADER_DIRS, d \in Directives}
            \cup {<<hd>> \o Dirname(f) \o <<h>> : hd \in HEADER_DIRS, f \in Files, h \in Headers}

VARIABLES
    includes,   \* includes[f]: the names of f's #include "..." lines
    diff,       \* GetChangedFiles(GetUpstream())
    hdr_db,     \* the header database, a defaultdict(set) on Keys
    changed,
    newchanged,
    pc

vars == <<includes, diff, hdr_db, changed, newchanged, pc>>

(***************************************************************************)
(* Any #include lines in the .h and .cc files; every kind of line in the   *)
(* others, which the script must ignore.  A diff of at most one file: the  *)
(* closure of a larger diff is the union of its files' closures.           *)
(***************************************************************************)
Init ==
    /\ includes \in {inc \in [Files -> SUBSET Directives] :
                        \A f \in Files : Basename(f) \in Others => inc[f] = Directives}
    /\ diff \in {{f} : f \in Files} \cup {{}}
    /\ hdr_db = [k \in Keys |-> {}]
    /\ changed = {}
    /\ newchanged = {}
    /\ pc = "upstream"

(***************************************************************************)
(* GetIncludes: nothing for a file that is neither .h nor .cc; otherwise   *)
(* each name, joined to the file's directory when it has no '/'.           *)
(***************************************************************************)
GetIncludes(f) ==
    IF Basename(f) \notin Headers \cup Sources THEN {}
    ELSE {IF Len(d) = 1 THEN Dirname(f) \o d ELSE d : d \in includes[f]}

\* GetIncludedFiles: for each name, the name under each of HEADER_DIRS.
GetIncludedFiles(incs) == UNION {{<<hd>> \o inc : hd \in HEADER_DIRS} : inc \in incs}

\* BuildHeaderDatabase(root): every file under root, added to the set of each name it includes.
BuildHeaderDatabase(root) ==
    [k \in Keys |-> {f \in Files : f[1] = root /\ k \in GetIncludedFiles(GetIncludes(f))}]

(***************************************************************************)
(* GetUpstream and GetChangedFiles: git answers with the upstream (or      *)
(* 'no upstream configured', and origin/master is used), or fails and the  *)
(* script exits with status 1.                                             *)
(***************************************************************************)
GetUpstream ==
    /\ pc = "upstream"
    /\ \/ /\ newchanged' = diff
          /\ pc' = "build"
       \/ /\ pc' = "exit"
          /\ UNCHANGED newchanged
    /\ UNCHANGED <<includes, diff, hdr_db, changed>>

\* hdr_db = BuildHeaderDatabase('src')
BuildSrc ==
    /\ pc = "build"
    /\ hdr_db' = BuildHeaderDatabase("src")
    /\ pc' = "update"
    /\ UNCHANGED <<includes, diff, changed, newchanged>>

\* Mutant: old.update(new), the include/ sets replacing the src/ ones.
UpdateHeaderDatabaseReplace ==
    /\ pc = "update"
    /\ hdr_db' = [k \in Keys |-> IF BuildHeaderDatabase("include")[k] # {}
                                 THEN BuildHeaderDatabase("include")[k] ELSE hdr_db[k]]
    /\ pc' = "loop"
    /\ UNCHANGED <<includes, diff, changed, newchanged>>

\* UpdateHeaderDatabase(hdr_db, BuildHeaderDatabase('include')): old[key] |= value.
UpdateHeaderDatabase ==
    /\ pc = "update"
    /\ hdr_db' = [k \in Keys |-> hdr_db[k] \cup BuildHeaderDatabase("include")[k]]
    /\ pc' = "loop"
    /\ UNCHANGED <<includes, diff, changed, newchanged>>

\* The includers of the changed headers (hdr_db[filename] reads {} off Keys).
Includers(S) ==
    UNION {IF f \in Keys THEN hdr_db[f] ELSE {} : f \in {g \in S : Basename(g) \in Headers}}

\* One round of while newchanged - changed.
LoopRound ==
    /\ pc = "loop"
    /\ newchanged \ changed # {}
    /\ changed' = changed \cup newchanged
    /\ newchanged' = Includers(changed \cup newchanged)
    /\ UNCHANGED <<includes, diff, hdr_db, pc>>

\* The loop is over: print('\n'.join(changed)).
LoopExit ==
    /\ pc = "loop"
    /\ newchanged \subseteq changed
    /\ pc' = "done"
    /\ UNCHANGED <<includes, diff, hdr_db, changed, newchanged>>

Next == GetUpstream \/ BuildSrc \/ UpdateHeaderDatabase \/ LoopRound \/ LoopExit

Spec == Init /\ [][Next]_vars

-----------------------------------------------------------------------------
(***************************************************************************)
(* The reference: f includes g when one of f's lines names g as the        *)
(* compiler finds it: "x.h" in f's own directory, "sub/x.h" under either   *)
(* root.  The affected files are the least set holding the diff and every  *)
(* includer of one of its files.                                           *)
(***************************************************************************)
Resolves(f, d) ==
    IF Len(d) = 1 THEN {Dirname(f) \o d} ELSE {<<hd>> \o d : hd \in HEADER_DIRS}

IncludesFile(f, g) ==
    /\ Basename(f) \in Headers \cup Sources
    /\ \E d \in includes[f] : g \in Resolves(f, d)

ClosedUnderIncluders(S) ==
    /\ diff \subseteq S
    /\ \A f \in Files, g \in S : IncludesFile(f, g) => f \in S

Affected == {f \in Files : \A S \in SUBSET Files : ClosedUnderIncluders(S) => f \in S}

(***************************************************************************)
(* The comment of get-affected-files.py: what it prints is the transitive  *)
(* closure of the changed files under header dependencies, whichever      *)
(* root each file is in and however long the include chains.               *)
(***************************************************************************)
AffectedIsClosure == pc = "done" => changed = Affected
=============================================================================
