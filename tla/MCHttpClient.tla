----------------------------- MODULE MCHttpClient -----------------------------
(* A small instance of HttpClient for TLC.                                   *)
EXTENDS HttpClient

\* A one-unit chunk, one that is nothing but a CRLF, and one that holds a CRLF
\* before more data.
MCChunk == {<<<<"data", 0>>>>, <<CRLF>>, <<CRLF, <<"data", 0>>>>}
===============================================================================
