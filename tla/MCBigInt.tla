----------------------------- MODULE MCBigInt -----------------------------
EXTENDS BigInt

\* Two variables of the client.
MCRegs == {"x", "y"}

\* Inputs for the other cases (the .cfg takes only naturals): two negative
\* numbers of different lengths, and INT_MIN of an 8-bit int.
NegInputs == {-3, -15}
IntMinInput == {-128}

\* Strings: a plain number, a negative one, leading zeros, a negative zero
\* and one that throws.
MCStrings == {<<"1", "2">>, <<"-", "7">>, <<"0", "0", "7">>, <<"-", "0">>, <<"7", "-">>}
====
