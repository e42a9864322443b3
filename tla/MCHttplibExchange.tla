-------------------------- MODULE MCHttplibExchange ---------------------------
(* Two requests, on connections that carry at most two.                    *)
EXTENDS HttplibExchange
==============================================================================
