------------------------------- MODULE MCWallet -------------------------------
(* Instances of Wallet for TLC: an address with a small and a sufficient   *)
(* output, and one with a sufficient output.                               *)
EXTENDS Wallet

ThreeOutputs == 1 .. 3
TwoAddresses == 1 .. 2

OwnedByTwo == <<1, 1, 2>>
Values     == <<1, 2, 2>>

Asking(kind, height) == [kind |-> kind, height |-> height, amount |-> 1, fee |-> 1]

OneOutput  == {1}
OneAddress == {1}
OwnedByOne == <<1>>
Two        == <<2>>

Symmetry == Permutations(Requests)

PreparesAndSign == {Asking("prepare", 1), Asking("prepare", 2), Asking("sign", 1)}

AllKinds == {Asking("prepare", 1), Asking("prepare", 2), Asking("sign", 2),
             Asking("select", 1)}
=============================================================================
