------------------------------- MODULE MCService -------------------------------
(***************************************************************************)
(* A small instance of Service for TLC.                                    *)
(***************************************************************************)
EXTENDS Service

Output == [timeout |-> "none", bufferMB |-> 1, batchKB |-> -1, delay |-> "good"]

HTTP == [kind |-> "http", name |-> "a", addr |-> ":1", cert |-> "none",
         outputs |-> <<Output, [Output EXCEPT !.bufferMB = 0, !.delay = "bad"]>>]
HTTPS == [HTTP EXCEPT !.name = "", !.addr = ":2", !.cert = "good"]
UDP == [kind |-> "udp", name |-> "", addr |-> ":1",
        outputs |-> <<[resolves |-> TRUE, mtu |-> 0]>>]

MCConfigs ==
    {<<HTTP, HTTPS, UDP>>,
     <<HTTP, [HTTPS EXCEPT !.cert = "bad"]>>,           \* no certificate
     <<HTTP, [HTTPS EXCEPT !.addr = ":1"]>>,            \* an address used twice
     <<HTTPS, [UDP EXCEPT !.name = "b", !.addr = ":3"], UDP>>,
     <<HTTP, [UDP EXCEPT !.name = "a"]>>,               \* a name used twice
     <<[HTTP EXCEPT !.name = ":1"], UDP>>,              \* ... once by default
     <<[HTTP EXCEPT !.name = "https://:2"], HTTPS>>,
     <<HTTP, [UDP EXCEPT !.outputs = <<[resolves |-> TRUE, mtu |-> -1]>>]>>,
     <<HTTP, [UDP EXCEPT !.outputs = <<[resolves |-> FALSE, mtu |-> 512]>>]>>,
     <<[HTTP EXCEPT !.outputs = <<[Output EXCEPT !.delay = "bad"]>>]>>}
=============================================================================
