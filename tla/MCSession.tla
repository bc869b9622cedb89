------------------------------ MODULE MCSession ------------------------------
(* A small instance of Session: one repetition, numbers that are exhausted  *)
(* after two or three records, so that a restored session can go on before  *)
(* it is negotiated again, with and without a data store.                   *)
EXTENDS Session

MCAsks == {<<"NO", FALSE>>, <<"SLAVE", FALSE>>, <<"FULL", FALSE>>, <<"FULL", TRUE>>}
MCFirstNumbers == {1}
MCStoreConfigured == {TRUE, FALSE}
=============================================================================
