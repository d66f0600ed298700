---------------------------- MODULE FragmentLoader --------------------------
(***************************************************************************)
(* The unit fragment loader (src/load-fragment.c): open_follow,            *)
(* merge_by_names, load_from_path and unit_load_fragment, acting on the    *)
(* unit registry.                                                          *)
(*                                                                         *)
(* A path is <<directory, basename>>.  The file system is fixed for a      *)
(* behaviour: each path is missing, a unit file, an empty file (or         *)
(* /dev/null), a symlink, or fails to open with another error.  Units are  *)
(* created by name (manager_load_unit) and then loaded one at a time from  *)
(* the load queue; loading follows symlinks by hand, collecting the valid  *)
(* unit names it passes as aliases, and merges the units owning them.      *)
(* The registry operations unit.c provides (unit_merge, unit_add_name,     *)
(* manager_load_unit, unit_load) are not in this tree; they are written    *)
(* from spec sections 4.3 and 4.4.                                         *)
(***************************************************************************)
EXTENDS Integers, Sequences, FiniteSets, SequencesExt

CONSTANTS
    Dirs,         \* the unit lookup path, in search order
    Outside,      \* a directory outside the lookup path
    UnitNames,    \* valid unit names (unit_name_is_valid)
    OtherNames,   \* basenames that are not unit names (e.g. "null")
    NameOrder,    \* the hash order in which a name set is iterated
    FSChoices,    \* the file systems a behaviour may run on
    Units,        \* unit objects unit_new can allocate
    Requests,     \* the paths manager_load_unit may be passed with a name
    NoUnit, NoName, NoPath

AllDirs == Range(Dirs) \cup {Outside}
Paths == AllDirs \X (UnitNames \cup OtherNames)

Entry == [kind : {"none", "file", "empty", "error"}, target : {NoPath}]
         \cup [kind : {"link"}, target : Paths]

LoadState == {"stub", "loaded", "masked", "merged", "error", "not_found"}

ASSUME
    /\ FSChoices \subseteq [Paths -> Entry]
    /\ IsInjective(NameOrder) /\ Range(NameOrder) = UnitNames
    /\ Requests \subseteq Paths \cup {NoPath}

FOLLOW_MAX == 8
ENOENT == 2
ELOOP == 40
EACCES == 13
EEXIST == 17

VARIABLES
    fs,   \* the file system
    reg   \* the registry: owner of each name, and for each unit its names,
          \* id, load state, merged_into and fragment_path, plus the name it
          \* was created with and the path its fragment was found at

vars == <<fs, reg>>

-----------------------------------------------------------------------------
(* Registry operations (unit.c, from spec 4.4).                            *)

(* unit_merge(u, other): move other's names to u, mark other merged; it    *)
(* fails when other is already loaded or masked.                           *)
unit_merge(r, u, other) ==
    IF other = u THEN [r |-> 0, reg |-> r]
    ELSE IF r.state[other] \in {"loaded", "masked"} THEN [r |-> -EEXIST, reg |-> r]
    ELSE [r |-> 0,
          reg |-> [r EXCEPT
                     !.owner = [n \in UnitNames |->
                                  IF n \in r.names[other] THEN u ELSE @[n]],
                     !.names = [@ EXCEPT ![u] = @ \cup r.names[other], ![other] = {}],
                     !.state[other] = "merged",
                     !.merged_into[other] = u]]

(* unit_merge_by_name(u, k): merge the unit owning k, or add k as a name. *)
unit_merge_by_name(r, u, k) ==
    IF r.owner[k] = NoUnit
    THEN [r |-> 0, reg |-> [r EXCEPT !.owner[k] = u, !.names[u] = @ \cup {k}]]
    ELSE unit_merge(r, u, r.owner[k])

unit_choose_id(r, u, k) == [r EXCEPT !.id[u] = k]

-----------------------------------------------------------------------------
(* open_follow: open the path without following symlinks; on ELOOP read   *)
(* the link and retry, at most FOLLOW_MAX times.  Each valid unit name    *)
(* passed is added to names, and the last one is the id returned.         *)
(* Mutant: only the name of the file finally opened is collected, not the *)
(* names of the symlinks on the way.                                      *)
RECURSIVE open_follow_loop_final_only(_, _, _, _, _)
open_follow_loop_final_only(f, p, names, id, c) ==
    IF c >= FOLLOW_MAX THEN [r |-> -ELOOP, file |-> NoPath, names |-> names, id |-> id]
    ELSE LET valid == p[2] \in UnitNames /\ f[p].kind # "link"
             names1 == IF valid THEN names \cup {p[2]} ELSE names
             id1 == IF valid THEN p[2] ELSE id
         IN CASE f[p].kind \in {"file", "empty"} ->
                   [r |-> 0, file |-> p, names |-> names1, id |-> id1]
              [] f[p].kind = "link" -> open_follow_loop_final_only(f, f[p].target, names1, id1, c + 1)
              [] f[p].kind = "none" -> [r |-> -ENOENT, file |-> NoPath, names |-> names1, id |-> id1]
              [] f[p].kind = "error" -> [r |-> -EACCES, file |-> NoPath, names |-> names1, id |-> id1]

RECURSIVE open_follow_loop(_, _, _, _, _)
open_follow_loop(f, p, names, id, c) ==
    IF c >= FOLLOW_MAX THEN [r |-> -ELOOP, file |-> NoPath, names |-> names, id |-> id]
    ELSE LET valid == p[2] \in UnitNames
             names1 == IF valid THEN names \cup {p[2]} ELSE names
             id1 == IF valid THEN p[2] ELSE id
         IN CASE f[p].kind \in {"file", "empty"} ->
                   [r |-> 0, file |-> p, names |-> names1, id |-> id1]
              [] f[p].kind = "link" -> open_follow_loop(f, f[p].target, names1, id1, c + 1)
              [] f[p].kind = "none" -> [r |-> -ENOENT, file |-> NoPath, names |-> names1, id |-> id1]
              [] f[p].kind = "error" -> [r |-> -EACCES, file |-> NoPath, names |-> names1, id |-> id1]

open_follow(f, p) == open_follow_loop(f, p, {}, NoName, 0)

WithStart(o, p) == [r |-> o.r, file |-> o.file, names |-> o.names, id |-> o.id, start |-> p]

(* The STRV_FOREACH over the lookup path in load_from_path: the first     *)
(* directory whose entry opens wins; ENOENT empties the symlink names and *)
(* tries the next directory, any other error ends the search.             *)
(* Mutant: every failing directory is skipped, not only a missing entry. *)
RECURSIVE search_unit_path_skip_errors(_, _, _)
search_unit_path_skip_errors(f, name, i) ==
    IF i > Len(Dirs) THEN [r |-> 0, file |-> NoPath, start |-> NoPath, names |-> {}, id |-> NoName]
    ELSE LET o == open_follow(f, <<Dirs[i], name>>) IN
         IF o.r < 0 THEN search_unit_path_skip_errors(f, name, i + 1)
         ELSE WithStart(o, <<Dirs[i], name>>)

RECURSIVE search_unit_path(_, _, _)
search_unit_path(f, name, i) ==
    IF i > Len(Dirs) THEN [r |-> 0, file |-> NoPath, start |-> NoPath, names |-> {}, id |-> NoName]
    ELSE LET o == open_follow(f, <<Dirs[i], name>>) IN
         IF o.r = -ENOENT THEN search_unit_path(f, name, i + 1)
         ELSE WithStart(o, <<Dirs[i], name>>)

(* merge_by_names: merge every collected name into u, in hash order.  If  *)
(* u cannot absorb the owner of a name, u is merged into that owner and   *)
(* the remaining names go there, with no id chosen.                       *)
RECURSIVE merge_by_names(_, _, _, _)
merge_by_names(r, u, ks, id) ==
    IF ks = <<>> THEN [r |-> 0, u |-> u, reg |-> r]
    ELSE LET k == Head(ks)
             m == unit_merge_by_name(r, u, k)
             other == r.owner[k]
             back == unit_merge(r, other, u)
         IN IF m.r >= 0
            THEN merge_by_names(IF id = k THEN unit_choose_id(m.reg, u, k) ELSE m.reg,
                                u, Tail(ks), id)
            ELSE IF other # NoUnit /\ back.r >= 0
            THEN merge_by_names(back.reg, other, Tail(ks), NoName)
            ELSE [r |-> m.r, u |-> u, reg |-> r]

(* load_from_path(u, path): an absolute path is opened directly, a name   *)
(* is searched along the lookup path.  No file leaves u a stub.  A file   *)
(* whose names merge u into another unit leaves u merged; otherwise u is  *)
(* masked by an empty file or loaded, and remembers the fragment path.    *)
load_from_path(r, u, path) ==
    LET o == IF path \in Paths
             THEN WithStart(open_follow(fs, path), path)
             ELSE search_unit_path(fs, path, 1)
        found == [r EXCEPT !.source[u] = o.start]
        mg == merge_by_names(found, u, SelectSeq(NameOrder, LAMBDA n : n \in o.names), o.id)
    IN IF o.r < 0 /\ o.r # -ENOENT THEN [r |-> o.r, reg |-> r]
       ELSE IF o.r < 0 \/ o.file = NoPath THEN [r |-> 0, reg |-> r]
       ELSE IF mg.r < 0 THEN [r |-> mg.r, reg |-> mg.reg]
       ELSE IF mg.u # u THEN [r |-> 0, reg |-> [mg.reg EXCEPT !.state[u] = "merged"]]
       ELSE [r |-> 0,
             reg |-> [mg.reg EXCEPT
                        !.state[u] = IF fs[o.file].kind = "empty" THEN "masked" ELSE "loaded",
                        !.fragment[u] = o.file]]

(* The SET_FOREACH over u's other names: stop at an error or once one of  *)
(* them has left the stub state.                                          *)
RECURSIVE load_aliases(_, _, _)
load_aliases(r, u, ts) ==
    IF ts = <<>> THEN [r |-> 0, reg |-> r]
    ELSE LET l == load_from_path(r, u, Head(ts)) IN
         IF l.r < 0 \/ l.reg.state[u] # "stub" THEN l
         ELSE load_aliases(l.reg, u, Tail(ts))

(* unit_load_fragment: the id, then the other names, then the path the    *)
(* unit was created with (forgotten if nothing is there).  No unit name   *)
(* in this model carries an instance, so the template step never runs.    *)
unit_load_fragment_fragment(s3, u) ==
    IF s3.r < 0 \/ s3.reg.state[u] # "stub" THEN s3
    ELSE [s3 EXCEPT !.reg.fragment[u] = NoPath]

unit_load_fragment_aliases(s2, u) ==
    IF s2.r < 0 \/ s2.reg.state[u] # "stub" \/ s2.reg.fragment[u] = NoPath THEN s2
    ELSE unit_load_fragment_fragment(load_from_path(s2.reg, u, s2.reg.fragment[u]), u)

unit_load_fragment_id(s1, u) ==
    IF s1.r < 0 \/ s1.reg.state[u] # "stub" THEN s1
    ELSE unit_load_fragment_aliases(
             load_aliases(s1.reg, u,
                 SelectSeq(NameOrder, LAMBDA n : n \in s1.reg.names[u] \ {s1.reg.id[u]})), u)

unit_load_fragment(r, u) == unit_load_fragment_id(load_from_path(r, u, r.id[u]), u)

(* unit_load (unit.c, from spec 4.3): a failing load marks the unit       *)
(* error, a unit still a stub is not-found.                               *)
unit_load_result(l, u) ==
    IF l.r < 0 THEN [l.reg EXCEPT !.state[u] = "error"]
    ELSE IF l.reg.state[u] = "stub" THEN [l.reg EXCEPT !.state[u] = "not_found"]
    ELSE l.reg

unit_load(r, u) == unit_load_result(unit_load_fragment(r, u), u)

-----------------------------------------------------------------------------
(* Mutant: a unit created from a path takes the path, not its basename,  *)
(* as id.                                                                  *)
LoadUnit_path_id(n, path) ==
    /\ IF path = NoPath THEN TRUE ELSE path[2] = n
    /\ reg.owner[n] = NoUnit
    /\ \E u \in Units \ reg.units :
          reg' = [reg EXCEPT !.units = @ \cup {u}, !.owner[n] = u,
                             !.names[u] = {n}, !.id[u] = IF path = NoPath THEN n ELSE path,
                             !.created[u] = n, !.fragment[u] = path]
    /\ UNCHANGED fs

(* manager_load_unit(name, path): a name nobody owns gets a new stub unit *)
(* with that name as id and the path as its fragment_path.                *)
LoadUnit(n, path) ==
    /\ IF path = NoPath THEN TRUE ELSE path[2] = n
    /\ reg.owner[n] = NoUnit
    /\ \E u \in Units \ reg.units :
          reg' = [reg EXCEPT !.units = @ \cup {u}, !.owner[n] = u,
                             !.names[u] = {n}, !.id[u] = n, !.created[u] = n,
                             !.fragment[u] = path]
    /\ UNCHANGED fs

(* manager_dispatch_load_queue: load one queued stub unit. *)
DispatchLoad(u) ==
    /\ u \in reg.units
    /\ reg.state[u] = "stub"
    /\ reg' = unit_load(reg, u)
    /\ UNCHANGED fs

InitReg ==
    [owner |-> [n \in UnitNames |-> NoUnit],
     units |-> {},
     names |-> [u \in Units |-> {}],
     id |-> [u \in Units |-> NoName],
     created |-> [u \in Units |-> NoName],
     state |-> [u \in Units |-> "stub"],
     merged_into |-> [u \in Units |-> NoUnit],
     fragment |-> [u \in Units |-> NoPath],
     source |-> [u \in Units |-> NoPath]]

Init ==
    /\ fs \in FSChoices
    /\ reg = InitReg

Next ==
    \/ \E n \in UnitNames, path \in Requests : LoadUnit(n, path)
    \/ \E u \in Units : DispatchLoad(u)

Spec == Init /\ [][Next]_vars

-----------------------------------------------------------------------------
(* Reference definitions: the symlink chain from a path, walked without a *)
(* hop limit and stopped at the first repeated path.                      *)

RECURSIVE ChainFrom(_, _)
ChainFrom(p, seen) ==
    IF p \in seen THEN seen
    ELSE IF fs[p].kind = "link" THEN ChainFrom(fs[p].target, seen \cup {p})
    ELSE seen \cup {p}

RECURSIVE ChainEnd(_, _)
ChainEnd(p, seen) ==
    IF p \in seen THEN "cycle"
    ELSE IF fs[p].kind = "link" THEN ChainEnd(fs[p].target, seen \cup {p})
    ELSE fs[p].kind

ChainNames(p) ==
    IF p = NoPath THEN {} ELSE {q[2] : q \in ChainFrom(p, {})} \cap UnitNames

LinkCount(p) == Cardinality({q \in ChainFrom(p, {}) : fs[q].kind = "link"})

(* The unit a unit has been merged into, followed to the end. *)
RECURSIVE MergeRoot(_, _)
MergeRoot(u, k) ==
    IF reg.merged_into[u] = NoUnit \/ k = 0 THEN u
    ELSE MergeRoot(reg.merged_into[u], k - 1)

Root(u) == MergeRoot(u, Cardinality(Units))

Live(u) == u \in reg.units /\ reg.state[u] # "merged"

(* Every name a unit could legitimately own: the names its merged units   *)
(* were created with, and the unit names on the symlink chains they were  *)
(* loaded through.                                                        *)
Known(u) ==
    UNION {ChainNames(reg.source[w]) \cup {reg.created[w]} :
               w \in {x \in reg.units : Root(x) = u}}

-----------------------------------------------------------------------------
TypeOK ==
    /\ fs \in [Paths -> Entry]
    /\ reg.units \subseteq Units
    /\ reg.owner \in [UnitNames -> Units \cup {NoUnit}]
    /\ reg.names \in [Units -> SUBSET UnitNames]
    /\ reg.id \in [Units -> UnitNames \cup {NoName}]
    /\ reg.created \in [Units -> UnitNames \cup {NoName}]
    /\ reg.state \in [Units -> LoadState]
    /\ reg.merged_into \in [Units -> Units \cup {NoUnit}]
    /\ reg.fragment \in [Units -> Paths \cup {NoPath}]
    /\ reg.source \in [Units -> Paths \cup {NoPath}]

(* Spec 4.3 steps 2 and 5: a unit owns only names it was created with or  *)
(* met on a symlink chain of one of the units merged into it, and a unit  *)
(* whose load did not fail owns, through the unit it ended in, every unit *)
(* name on the chain its fragment was reached by.                          *)
AliasesExact ==
    /\ \A u \in reg.units : Live(u) => reg.names[u] \subseteq Known(u)
    /\ \A w \in reg.units :
          (reg.state[w] # "error" /\ reg.source[w] # NoPath) =>
              ChainNames(reg.source[w]) \subseteq reg.names[Root(w)]

(* Spec 4.3 step 1: a unit file is taken from the first directory of the  *)
(* lookup path that has an entry for the name; later directories are     *)
(* searched only when the earlier entries do not exist.                   *)
FragmentFromFirstDir ==
    \A u \in reg.units :
        /\ reg.state[u] \in {"loaded", "masked"}
        /\ reg.source[u] \in Range(Dirs) \X UnitNames
        => \A i, j \in DOMAIN Dirs :
              (j < i /\ Dirs[i] = reg.source[u][1]) =>
                  ChainEnd(<<Dirs[j], reg.source[u][2]>>, {}) = "none"

(* A unit merged into another stays merged: no later step of its load     *)
(* gives it a state of its own while its names live in another unit.      *)
MergedStaysMerged ==
    \A u \in reg.units : reg.merged_into[u] # NoUnit => reg.state[u] = "merged"

(* Spec 4.3 step 2: open_follow follows up to 8 symlinks and fails with   *)
(* ELOOP only beyond that (or on a cycle).                                 *)
SymlinkLimitMatchesSpec ==
    \A p \in Paths :
        open_follow(fs, p).r = -ELOOP => (ChainEnd(p, {}) = "cycle" \/ LinkCount(p) > 8)


(* Loading a unit does what spec 4.3 says of it: a unit merged into another *)
(* stays merged, and only a cycle or more than eight symlinks make          *)
(* open_follow fail with ELOOP.                                             *)
LoadMatchesSpec == MergedStaysMerged /\ SymlinkLimitMatchesSpec

=============================================================================
