-------------------------------- MODULE MCDemo --------------------------------
(* Instances of DemoConnection for TLC. *)
EXTENDS DemoConnection, EndpointService, MCRequests

Fields == <<GetLine, UpgradeLine, ConnectionLine, VersionLine>>

MCPeers ==
  {MakePeer(lines, Len(lines) = 5,
            << Frame(1, OpText, Key1, <<a, 2, 3, 4>>), Frame(0, OpBinary, Key1, <<5, 6, 7, 8>>),
               Frame(1, OpContinue, Key2, <<9, 10, 11, 12>>),
               Frame(1, OpPing, Key2, <<a, 2, 3, 4, 5>>) >>) :
     lines \in {Fields, Append(Fields, KeyLine)}, a \in {0, 255}}

\* These peers are what the proofs about the connection are about.
ASSUME DemoPeersAreWellFormed ==
  \A p \in MCPeers :
    /\ WellFormed(p) /\ RequestJudged(p) /\ (p.valid => Assembled(p, PartsOf(p)))
    /\ Len(p.bytes) <= 300
===============================================================================
