-------------------------- MODULE MCRequestBuffer --------------------------
(***************************************************************************)
(* Instances of RequestBuffer for TLC: what a client may ask.              *)
(***************************************************************************)
EXTENDS RequestBuffer

\* A request of the size of the buffer, a SETUP, and a request whose CSeq starts
\* right behind the end of the first.
Named(name) == <<name, "value">>
Short == <<"method", "url">> \o Named("cseq") \o <<"line">>
Setup == <<"method", "url">> \o Named("transport") \o Named("cseq") \o <<"line">>
Late == <<"method", "url", "line", "line", "line">> \o Named("cseq") \o <<"line">>

Dialogues == {<<Short, Setup>>, <<Setup, Short>>, <<Late, Short>>}

\* The requests are what the theorems about requests are for.
ASSUME RequestAssumption == \A s \in Scripts : \A i \in DOMAIN s : WellFormed(s[i])
=============================================================================
