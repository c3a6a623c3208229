---------------------------- MODULE MCTaskGraph ----------------------------
(* Graphs for TaskGraph.                                                   *)
EXTENDS TaskGraph

B(n, access)   == [resource |-> [class |-> "buffer", id |-> 1, part |-> n], access |-> access]
T(n, access)   == [resource |-> [class |-> "texture", id |-> n, part |-> 0], access |-> access]
RT(access)     == [resource |-> [class |-> "target", id |-> 1, part |-> 0], access |-> access]
Image(access)  == [resource |-> [class |-> "lease", id |-> 1, part |-> 0], access |-> access]
Tmp(n, access) == [resource |-> [class |-> "temporary", id |-> n, part |-> 0], access |-> access]
Node(kind, uses) == [kind |-> kind, uses |-> uses]

ShapeDef == <<1, 1, 2, 1>>

(* One of each: what nodes of short graphs are taken from.                 *)
Catalogue ==
  {Node("dispatch", {Tmp(1, "write")}),
   Node("dispatch", {Tmp(1, "read"), B(1, "write")}),
   Node("dispatch", {Tmp(2, "update"), B(0, "read")}),
   Node("render",   {B(0, "read"), T(1, "read"), RT("write")}),
   Node("render",   {B(2, "update"), RT("update")}),
   Node("clear",    {B(2, "write")}),
   Node("upload",   {B(1, "read"), T(1, "write")}),
   Node("resolve",  {RT("read"), T(1, "write")}),
   Node("resolve",  {RT("read"), Image("write")}),
   Node("cpu",      {B(0, "update")})}

Short == {[nodes |-> n, precedes |-> {}] : n \in [1..3 -> Catalogue]}

(* Longer ones, each for a case of its own.                                *)
Chain == [nodes |-> <<Node("dispatch", {Tmp(1, "write")}),
                      Node("dispatch", {Tmp(1, "read"), Tmp(2, "write")}),
                      Node("dispatch", {Tmp(1, "read"), Tmp(2, "read"), Tmp(3, "write")}),
                      Node("dispatch", {Tmp(3, "read"), Tmp(4, "write")}),
                      Node("dispatch", {Tmp(4, "read"), B(1, "write")}),
                      Node("render",   {B(0, "read"), RT("write")}),
                      Node("resolve",  {RT("read"), Image("write")})>>, precedes |-> {}]

(* Record order and waves disagree: the upload of node 5 comes first.      *)
Crossed == [nodes |-> <<Node("upload",   {T(1, "write")}),
                        Node("dispatch", {T(1, "read"), Tmp(1, "update")}),
                        Node("dispatch", {Tmp(2, "update"), B(1, "write")}),
                        Node("clear",    {B(2, "write")}),
                        Node("clear",    {B(1, "update")})>>, precedes |-> {}]

(* Two windows: one presents what a dispatch wrote, one renders.           *)
Windows == [nodes |-> <<Node("dispatch", {T(1, "write")}),
                        Node("upload",   {T(1, "read"), Image("write")}),
                        Node("dispatch", {B(1, "write")}),
                        Node("render",   {B(0, "read"), RT("write")})>>, precedes |-> {}]

Host == [nodes |-> <<Node("dispatch", {B(1, "write")}),
                     Node("render",   {B(1, "read"), RT("write")}),
                     Node("cpu",      {B(0, "update")}),
                     Node("cpu",      {B(2, "write")}),
                     Node("dispatch", {B(0, "update")})>>, precedes |-> {<<1, 5>>}]

GraphsDef == Short \cup {Chain, Crossed, Windows, Host}
Singles   == {Chain, Crossed, Windows, Host}
AfterDef  == {[nodes |-> <<Node("dispatch", {B(1, "write")}), Node("dispatch", {B(2, "write")})>>,
               precedes |-> {<<1, 2>>}]}

(* A second dispatch draws over what the first drew.                       *)
OverlayDef == {[nodes |-> <<Node("dispatch", {Image("write")}), Node("dispatch", {Image("update")})>>,
                precedes |-> {}]}

=============================================================================
