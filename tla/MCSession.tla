------------------------------ MODULE MCSession ------------------------------
(* Instances of Session for TLC. *)
EXTENDS Session

\* Names without an address, with one, and the latter with "@" before it.
Plain == [at |-> FALSE, addr |-> NoAddress]
NameForms == {Plain, [at |-> FALSE, addr |-> 4], [at |-> TRUE, addr |-> 4],
              [at |-> TRUE, addr |-> NoAddress]}

Digits == {<<1>>, <<1, 2>>}
=============================================================================
