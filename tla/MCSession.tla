----------------------------- MODULE MCSession ------------------------------
(***************************************************************************)
(* Instances of Session for TLC.  A line of a buffer takes three pieces,   *)
(* so that "add" is read in two parts; an answer of three pieces can be    *)
(* cut, and two of them that are read together fill a buffer.              *)
(***************************************************************************)
EXTENDS Session

Typed ==
  {<<"foo", "nl">>, <<"ping", "nl">>, <<"getk">>, <<"remove", "k", "nl">>,
   <<"start", "k", "u", "nl">>, <<"add", "k", "doc", "nl">>,
   <<"add", "k">> \o LongValue \o <<"nl">>}

(* A document is stored and asked for.                                     *)
AddAndGet == {<<"add", "k", "doc", "nl">>, <<"get", "k", "nl">>}

Clean == {<<>>}
Dirty == {<<>>, <<"stale">>}

=============================================================================
