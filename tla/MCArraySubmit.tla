---------------------------- MODULE MCArraySubmit ----------------------------
(***************************************************************************)
(* TLC instances of ArraySubmit: the array a with tasks 0 and 1, the job p *)
(* and a name u that nobody has.                                           *)
(***************************************************************************)
EXTENDS ArraySubmit

CONSTANTS a, p, u

None == -1

TwoTasks == [x \in OldArray |-> {0, 1}]

T(l, h, s) == [lo |-> l, hi |-> h, step |-> s]

\* a single job; 0-1; 1,0-3:2; 0-2:2; too many tasks; an empty range
SomeTerms == {<<>>, <<T(0, 1, 1)>>, <<T(1, 1, 1), T(0, 3, 2)>>, <<T(0, 2, 2)>>,
              <<T(0, 3, 1)>>, <<T(1, 0, 1)>>}

D(k, t, i) == [kind |-> k, to |-> t, index |-> i]

OneDep == {D("afterok", p, None), D("afterok", u, None), D("afterok", a, None),
           D("afterok", a, 1), D("afterok", a, 2), D("aftercorr", a, None),
           D("aftercorr", p, None), D("aftercorr", a, 1)}

SomeDeps == {<<>>, <<D("afterok", p, None), D("aftercorr", a, None)>>,
             <<D("afterok", a, 0), D("afterok", a, None)>>} \cup {<<d>> : d \in OneDep}
=============================================================================
