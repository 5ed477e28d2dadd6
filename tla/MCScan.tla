-------------------------------- MODULE MCScan --------------------------------
(* An instance of Scan for TLC: three blocks, outputs of two addresses     *)
(* that may be watched and one that may not, spent one and two blocks      *)
(* later.  The third block spends outputs of two transactions, one more    *)
(* than the cache holds.                                                   *)
EXTENDS Scan

NullOutpoint == <<"null", 0>>

ThreeBlocks == << <<"c1">>, <<"c2", "t2">>, <<"c3", "t3">> >>

Payments == [c1 |-> <<"a", "b">>, c2 |-> <<"x">>, t2 |-> <<"x", "a">>,
             c3 |-> <<"x">>, t3 |-> <<"b">>]

Inputs == [c1 |-> <<NullOutpoint>>, c2 |-> <<NullOutpoint>>,
           c3 |-> <<NullOutpoint>>,
           t2 |-> << <<"c1", 1>> >>,
           t3 |-> << <<"c1", 2>>, <<"t2", 2>> >>]

AllOutputs == UNION {{<<t, v>> : v \in DOMAIN Payments[t]} : t \in DOMAIN Payments}

OneBranch == {0}
=============================================================================
