----------------------------- MODULE MCDramSim3 -----------------------------
(* Instances of the memory channels for TLC.                               *)
EXTENDS DramSim3, TLC

\* Channel 0 gets two reads of one address, a read and a write of another;
\* channel 1 gets a read.
Addr  == ("r1" :> "A" @@ "r2" :> "A" @@ "r3" :> "B" @@ "w1" :> "B" @@ "r4" :> "C")
Chan  == ("r1" :> 0 @@ "r2" :> 0 @@ "r3" :> 0 @@ "w1" :> 0 @@ "r4" :> 1)
Write == [p \in DOMAIN Addr |-> p = "w1"]
Map   == ("A" :> 0 @@ "B" :> 0 @@ "C" :> 1)

\* Two reads of one channel.
TwoAddr  == ("r1" :> "A" @@ "r2" :> "A")
TwoChan  == ("r1" :> 0 @@ "r2" :> 0)
TwoWrite == ("r1" :> FALSE @@ "r2" :> FALSE)
TwoMap   == ("A" :> 0)
==============================================================================
