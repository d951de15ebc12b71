---- MODULE MCPipeline ----
\* Every input with the worker of udp, every output with input_testpicture.
EXTENDS Pipeline

MCPairs == (InputKinds \X {"udp"}) \cup ({"testpicture"} \X OutputKinds)
MCSharpness == {-1, 200, 900}
\* No picture to a package, as many as frames[] has room for, and one more.
MCPackages == {0, 2, 3}
====
