---------------------------- MODULE MCPlaceholder ----------------------------
(* TLC instance of the two ways into a placeholder: a package copied from  *)
(* a file straight into the NCA writer, and then one that a network        *)
(* transport brings through the segment ring.  Its last segment is cut     *)
(* short, or (in Exact) is full like the others.                           *)
EXTENDS SegmentRing, MCNcaWriter

VARIABLE through    \* "writer" (NcaWriter), then "ring" or "exactRing"

placeVars == <<vars, ncaVars, through>>

\* The ring for a stream one byte shorter: a whole number of segments.  What
\* the properties of the ring say is the same for both.
Exact == INSTANCE SegmentRing WITH Total <- Total - 1

InWriter(steps) == through = "writer" /\ steps /\ UNCHANGED <<vars, through>>
InRing(steps) == through = "ring" /\ steps /\ UNCHANGED <<ncaVars, through>>
InExact(steps) == through = "exactRing" /\ steps /\ UNCHANGED <<ncaVars, through>>

\* The writer is gone, or the process and another is started; what became of
\* the package is no matter to the ring.
NextPackage ==
  /\ through = "writer" /\ call \in {"returned", "failed", "terminated"}
  /\ through' \in {"ring", "exactRing"}
  /\ package' = Nca /\ caller' = "sdmc" /\ fed' = 0 /\ parsed' = 0 /\ stage' = "header"
  /\ blockIdx' = 0 /\ blockRead' = 0 /\ held' = 0
  /\ out' = <<>> /\ contentBuffer' = <<>> /\ contentOffset' = HeaderSize
  /\ created' = FALSE /\ stored' = <<>> /\ call' = "loop" /\ threw' = FALSE
  /\ UNCHANGED vars

PlaceInit == Init /\ NcaInit /\ through = "writer"

PlaceNext == InWriter(NcaSteps) \/ NextPackage \/ InRing(Next) \/ InExact(Exact!Next)

PlaceSpec ==
  /\ PlaceInit /\ [][PlaceNext]_placeVars
  /\ WF_placeVars(InWriter(NcaSteps)) /\ WF_placeVars(NextPackage)
  /\ WF_placeVars(InRing(Producer)) /\ WF_placeVars(InRing(Consumer))
  /\ WF_placeVars(InExact(Exact!Producer)) /\ WF_placeVars(InExact(Exact!Consumer))
==============================================================================
