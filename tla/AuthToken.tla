------------------------------ MODULE AuthToken ------------------------------
(***************************************************************************)
(* The bearer token of a request (Central::_int_auth_token in              *)
(* src/server/src/main.rs), which require_admin, require_user,             *)
(* require_worker and require_factory all begin with.  The Authorization  *)
(* header is read as a string (to_str fails on any byte that is not        *)
(* visible ASCII or a tab), split on whitespace, and accepted when it has *)
(* exactly two words, the first "bearer" in any case and the second at    *)
(* least three bytes long; anything else is answered 401.                 *)
(*                                                                         *)
(* A header is a sequence of characters over HeaderChars, in which " "    *)
(* stands for every whitespace character and "nv" for every byte to_str   *)
(* refuses.  The keyword is the constant Keyword, and Lower folds the     *)
(* capitals of its letters.                                                *)
(***************************************************************************)
EXTENDS Naturals, Sequences, SequencesExt

CONSTANTS
    HeaderChars,    \* the characters of a header
    MaxHeaderLen,   \* the longest header
    Keyword,        \* "bearer", as a sequence of lower-case characters
    NoHeader,       \* the request has no Authorization header
    Unauthorized    \* unauth_response(): 401

VARIABLE header     \* the Authorization header of a request

Whitespace == {" "}
Visible == HeaderChars \ {"nv"}

\* str::to_lowercase on the letters of "bearer".
LowerOf == [c \in {"B", "E", "A", "R"} |->
               CASE c = "B" -> "b" [] c = "E" -> "e" [] c = "A" -> "a" [] c = "R" -> "r"]
Lower(w) == [i \in DOMAIN w |-> IF w[i] \in DOMAIN LowerOf THEN LowerOf[w[i]] ELSE w[i]]

\* str::split_whitespace: the maximal runs of non-whitespace characters.
SplitWhitespace(h) ==
    LET step(a, c) ==
            IF c \in Whitespace THEN [a EXCEPT !.open = FALSE]
            ELSE IF a.open
                 THEN [a EXCEPT !.words[Len(a.words)] = Append(@, c)]
                 ELSE [words |-> Append(a.words, <<c>>), open |-> TRUE]
    IN FoldLeft(step, [words |-> <<>>, open |-> FALSE], h).words

\* Mutant of _int_auth_token: the token length is tested with > 3.
int_auth_token_long(h) ==
    IF h = NoHeader \/ \E i \in DOMAIN h : h[i] \notin Visible THEN Unauthorized
    ELSE LET t == SplitWhitespace(h) IN
         IF /\ Len(t) = 2
            /\ \A i \in DOMAIN t : t[i] # <<>>
            /\ Lower(t[1]) = Keyword
            /\ Len(t[2]) > 3
         THEN t[2] ELSE Unauthorized

\* _int_auth_token: the token, or a 401.  The trim() of each word is the
\* identity after split_whitespace and is left out.
int_auth_token(h) ==
    IF h = NoHeader \/ \E i \in DOMAIN h : h[i] \notin Visible THEN Unauthorized
    ELSE LET t == SplitWhitespace(h) IN
         IF /\ Len(t) = 2
            /\ \A i \in DOMAIN t : t[i] # <<>>
            /\ Lower(t[1]) = Keyword
            /\ Len(t[2]) >= 3
         THEN t[2] ELSE Unauthorized

Headers == {NoHeader} \cup BoundedSeq(HeaderChars, MaxHeaderLen)

(***************************************************************************)
(* Properties                                                              *)
(***************************************************************************)

\* The header without the whitespace around it.
Strip(h) ==
    LET inner == {i \in DOMAIN h : h[i] \notin Whitespace} IN
    IF inner = {} THEN <<>>
    ELSE SubSeq(h, CHOOSE f \in inner : \A i \in inner : f <= i,
                   CHOOSE l \in inner : \A i \in inner : i <= l)

\* The scheme as RFC 6750 writes it, with the length the code adds: the
\* keyword in any case, whitespace, then a token of at least three
\* characters and no whitespace, and whitespace only around them.  The
\* token is the second part.
BearerSplits(s) ==
    {j \in 1..Len(s) :
        /\ Len(Keyword) < j - 1
        /\ Lower(SubSeq(s, 1, Len(Keyword))) = Keyword
        /\ \A k \in Len(Keyword) + 1 .. j - 1 : s[k] \in Whitespace
        /\ \A k \in j .. Len(s) : s[k] \notin Whitespace
        /\ Len(s) - j + 1 >= 3}

BearerToken(h) ==
    IF h = NoHeader \/ \E i \in DOMAIN h : h[i] \notin Visible THEN Unauthorized
    ELSE LET s == Strip(h) IN
         IF BearerSplits(s) = {} THEN Unauthorized
         ELSE SubSeq(s, CHOOSE j \in BearerSplits(s) : TRUE, Len(s))

\* A request is authenticated by exactly the token the bearer scheme gives
\* its Authorization header, and a header that is not of that form is
\* answered 401: splitting on whitespace neither accepts a header with a
\* third word or a short token nor refuses one with extra whitespace or a
\* capitalised keyword.
AuthTokenMatchesGrammar == int_auth_token(header) = BearerToken(header)

=============================================================================
