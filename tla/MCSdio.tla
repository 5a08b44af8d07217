-------------------------------- MODULE MCSdio --------------------------------
EXTENDS Sdio

Req(c, a, late, d, n, b, w) ==
    [cmd |-> c, answer |-> a, delay |-> late, data |-> d, size |-> n, block |-> b, wait |-> w]

MCRequests ==
    {Req("NO_RESPONSE", "silent", 0, "none", 0, "good", 0)}
    \cup {Req(c, a, 1, "none", 0, "good", 0) : c \in {"STANDARD", "EXPAND"},
                                               a \in {"good", "bad", "ones", "silent"}}
    \cup {Req("STANDARD", "good", 2, "none", 0, "good", 0)}
    \cup {Req("STANDARD", "good", 0, "write", 3, b, w) : b \in {"good", "refused"}, w \in {0, 1, 2}}
    \cup {Req("SYNC", a, 0, "read", 3, b, 1) : a \in {"good", "bad", "silent"},
                                               b \in {"good", "bad", "stop", "silent"}}
    \cup {Req("SYNC", "good", 1, "read", 2, "good", w) : w \in {0, 2, 3}}
=============================================================================
