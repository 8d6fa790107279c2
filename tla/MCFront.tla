------------------------------- MODULE MCFront ------------------------------
(* The values of the constants of Front that a cfg cannot write.            *)
EXTENDS Front

CONSTANTS v1, v2, t1, t2, a, b, Upper, Bad

Get(k, l, p)  == [tls |-> FALSE, read |-> TRUE, host |-> [kind |-> k, first |-> l], path |-> p]
Post(k, l, p) == [Get(k, l, p) EXCEPT !.read = FALSE, !.tls = TRUE]

(* b is also the first label of the base.                                   *)
Sample ==
  {Get("sub", a, <<"v1">>), Post("sub", a, <<"v1", "v1", "v1x">>),
   Get("sub", Upper, <<>>), Get("deep", a, <<>>), Post("sub", Bad, <<>>), Post("bare", a, <<>>),
   Get("base", b, <<>>), Post("base", b, <<a, "v1", "v1", "v1">>),
   Get("base", b, <<"healthz">>), Post("base", b, <<b, "v1">>),
   Post("addr", a, <<b, a>>), Post("addr", b, <<Bad>>), Post("other", a, <<"v1">>)}

Asked == [v \in {v1, v2} |->
            IF v = v1 THEN Sample ELSE {Get("sub", a, <<>>)}]
=============================================================================
