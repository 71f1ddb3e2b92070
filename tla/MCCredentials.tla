---------------------------- MODULE MCCredentials ----------------------------
(***************************************************************************)
(* A short calendar and three ways to write the end of a CNH.              *)
(***************************************************************************)
EXTENDS Credentials

\* An ISO date that will pass; 31/12/2030, which sorts after every year and is no
\* Date; 01/06/2020, which sorts before every year and is a date that has passed.
SomeTexts ==
    {[text |-> 2, date |-> 2], [text |-> Horizon + 2, date |-> Horizon + 2], [text |-> 0, date |-> 0]}
=============================================================================
