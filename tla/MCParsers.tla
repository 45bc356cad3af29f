------------------------------ MODULE MCParsers ------------------------------
(* The job server's parsers of request strings, checked together, one     *)
(* string at a time: either an output rule of a submitted job (input), or *)
(* the Authorization header of a request (header).                         *)
EXTENDS OutputRule, AuthToken

\* "bearer" shortened to its first letter: only its case-insensitive
\* comparison with the first word matters.  Seven characters reach a third
\* word after a token of three.
MCKeyword == <<"b">>

ParsersInit ==
    \/ input \in Inputs /\ header = NoHeader
    \/ input = <<>> /\ header \in Headers

ParsersSpec == ParsersInit /\ [][UNCHANGED <<input, header>>]_<<input, header>>

=============================================================================
