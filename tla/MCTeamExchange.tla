--------------------------- MODULE MCTeamExchange ---------------------------
(* Small teams for TLC: what each trainer wants and has once full.           *)
EXTENDS TeamExchange

CONSTANTS a, b, c

Bag(s) == [p \in Pokemons |-> Len(SelectSeq(s, LAMBDA q : q = p))]
Team(wants, has, full, rounds) ==
    [objective |-> [t \in Trainers |-> Bag(wants[t])], caught |-> [t \in Trainers |-> Bag(has[t])],
     early |-> full, round |-> rounds]

\* Three matches with the same trainer1.
ThreeMatches ==
    Team(<<<<a, a, a>>, <<b, b, c>>, <<c>>, <<c>>>>, <<<<b, b, c>>, <<a, a, a>>, <<c>>, <<c>>>>,
         {}, <<1, 2, 0, 0>>)

\* Four trainers, some of whom have what they want.
SmallTeams ==
    { \* a cycle that no two of them solve
      Team(<<<<a>>, <<b>>, <<c>>, <<c>>>>, <<<<b>>, <<c>>, <<a>>, <<c>>>>, {}, <<1, 1, 1, 0>>),
      \* one trainer with two others
      Team(<<<<a, b>>, <<c>>, <<c>>, <<c>>>>, <<<<c, c>>, <<a>>, <<b>>, <<c>>>>, {},
           <<1, 1, 1, 0>>),
      \* direct and indirect exchanges
      Team(<<<<a, a>>, <<b, b>>, <<c>>, <<c>>>>, <<<<b, b>>, <<a, c>>, <<a>>, <<c>>>>, {},
           <<1, 1, 1, 0>>),
      \* two trainers may be promised the same pokemon of the first: it leaves too early, or
      \* gives what it does not have
      Team(<<<<a>>, <<a>>, <<b>>, <<b>>>>, <<<<b>>, <<b>>, <<a>>, <<a>>>>, {}, <<0, 1, 2, 2>>),
      Team(<<<<a, a>>, <<c>>, <<b>>, <<b>>>>, <<<<b, c>>, <<b>>, <<a>>, <<a>>>>, {}, <<0, 1, 2, 2>>),
      ThreeMatches,
      \* full by the configuration: two of them, and all
      Team(<<<<a, b>>, <<a, b>>, <<c>>, <<c>>>>, <<<<a, a>>, <<b, b>>, <<c>>, <<c>>>>, {1, 2},
           <<0, 0, 1, 1>>),
      Team(<<<<a>>, <<b>>, <<c>>, <<c>>>>, <<<<a>>, <<b>>, <<c>>, <<c>>>>, {1, 2, 3, 4},
           <<0, 0, 0, 0>>) }
=============================================================================
