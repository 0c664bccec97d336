----------------------------- MODULE MCClients -----------------------------
(***************************************************************************)
(* Two cards; an event log and a number of faults on which streams, polls  *)
(* and saves meet; a graph of three terms in which two thoughts share two. *)
(***************************************************************************)
EXTENDS Clients

CONSTANTS card1, card2, thought1, thought2, topic

MCCards == {card1, card2}
MCGraphTerms == 1..3
MCThoughts == {thought1, thought2}
MCTopics == {topic}
=============================================================================
