-------------------------- MODULE MCFragmentLoader --------------------------
(* Two lookup directories and one outside them, three unit names and the  *)
(* basename "null".  Each path may take a few entries, chosen so that the *)
(* lookup path shadows, links across directories, masks and fails.        *)
EXTENDS FragmentLoader, TLC

CONSTANTS D1, D2, O, a, b, c, null, u1, u2, u3

MCDirs == <<D1, D2>>
MCUnitNames == {a, b, c}
MCNameOrder == <<b, a, c>>
MCUnits == {u1, u2, u3}
UnitSymmetry == Permutations(MCUnits)

None == [kind |-> "none", target |-> NoPath]
File == [kind |-> "file", target |-> NoPath]
Empty == [kind |-> "empty", target |-> NoPath]
Error == [kind |-> "error", target |-> NoPath]
Link(p) == [kind |-> "link", target |-> p]

(* The entries each path may hold; paths not listed do not exist. *)
Layout(e1, e2, e3, e4, e5, e6) ==
    [p \in Paths |->
        CASE p = <<D1, a>> -> e1
          [] p = <<D2, a>> -> e2
          [] p = <<D1, b>> -> e3
          [] p = <<D2, c>> -> e4
          [] p = <<O, b>>  -> e5
          [] p = <<D2, b>> -> e6
          [] p = <<O, c>>  -> File
          [] p = <<O, null>> -> Empty
          [] OTHER -> None]

LayeredFS ==
    {Layout(e1, e2, e3, e4, e5, e6) :
        e1 \in {None, File, Link(<<O, b>>), Error},
        e2 \in {None, File, Empty},
        e3 \in {None, Link(<<D2, c>>)},
        e4 \in {None, File, Link(<<O, null>>)},
        e5 \in {File, Link(<<O, c>>)},
        e6 \in {None, File}}

MCRequests == {NoPath, <<O, b>>, <<O, c>>}

(* Chains of eight symlinks ending in a unit file: a's entry in the first *)
(* directory, then links through paths whose basenames are not unit names. *)
CONSTANTS h1, h2, h3, h4, h5, h6, h7, h8
HopNames == {h1, h2, h3, h4, h5, h6, h7, h8}
HopNamesNull == HopNames \cup {null}
HopOrder == <<h1, h2, h3, h4, h5, h6, h7, h8>>
ChainFS ==
    {[p \in Paths |->
        IF p = <<D1, a>> THEN Link(<<O, h2>>)
        ELSE IF p[1] = O /\ p[2] \in HopNames
             THEN LET i == CHOOSE k \in 1..8 : HopOrder[k] = p[2] IN
                  IF i < 8 THEN Link(<<O, HopOrder[i + 1]>>) ELSE Link(<<O, a>>)
        ELSE IF p = <<O, a>> THEN File
        ELSE None]}

(* Both: the layered file systems and the symlink chains. *)
LoaderFS == LayeredFS \cup ChainFS
=============================================================================
