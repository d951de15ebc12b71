---- MODULE MCHttpServer ----
(* HttpServer for TLC: one request of each kind that is treated differently,  *)
(* with one input plugin.                                                    *)
EXTENDS HttpServer

CONSTANTS c1, c2, t1, t2, b1, b2, b3, ip4, ip6

MCConns     == {c1, c2}
MCThreads   == {t1, t2}
MCBlocks    == {b1, b2, b3}
MCSockets   == {ip4, ip6}

Ask(type, number, named) == [type |-> type, number |-> number, named |-> named]
MCRequests ==
    { Ask("snapshot", 0, FALSE), Ask("stream", 0, FALSE), Ask("stream", 1, FALSE),
      Ask("take", 0, TRUE), Ask("take", 0, FALSE), Ask("command", 0, FALSE),
      Ask("output_json", 1, FALSE), Ask("malformed", 0, FALSE) }
====
