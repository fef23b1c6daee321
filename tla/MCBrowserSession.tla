-------------------------- MODULE MCBrowserSession --------------------------
(* Two agents with three tab names between them, and the recovered ones.       *)
EXTENDS BrowserSession, TLC

CONSTANTS a, b

MCOwnNames == {<<"own", i>> : i \in 1 .. 3}
\* Bound: one connection that fails or one call begun amid another, which then
\* have fewer pages, as a download has.
OneFault ==
    /\ failures + overlaps <= 1
    /\ failures + overlaps > 0 => used.pages <= 1
    /\ downloads # <<>> => used.pages <= 2
    /\ downloads # <<>> => failures + overlaps = 0 /\ used.drivers = 1

Alike == Permutations(Agents)
=============================================================================
