--------------------------- MODULE MCSnapshotFile ---------------------------
(* SnapshotFile for TLC; the bounds are in the .cfg file.                   *)
EXTENDS SnapshotFile

\* A file of any band, in either order; nothing special to detect.
AnyFile(bins, overlap, rate) ==
  {[bins |-> bins, overlap |-> overlap, rate |-> rate, low |-> low, high |-> high,
    lowDetect |-> 0, highDetect |-> (rate \div 2) - 1, lowNoise |-> -(rate \div 4), highNoise |-> 0,
    range |-> rate \div 2] :
     low \in -(rate \div 2)..(rate \div 2), high \in -(rate \div 2)..(rate \div 2)}

\* All of the file; any band, in either order, to detect in, and any range.
AnyDetection(bins, overlap, rate) ==
  {[bins |-> bins, overlap |-> overlap, rate |-> rate, low |-> 0, high |-> 0,
    lowDetect |-> low, highDetect |-> high, lowNoise |-> high, highNoise |-> low,
    range |-> range] :
     low \in -(rate \div 2)..(rate \div 2), high \in -(rate \div 2)..(rate \div 2),
     range \in 1..(rate \div 2)}

TheConfigs == AnyFile(8, 4, 16) \cup AnyFile(4, 0, 10) \cup AnyDetection(4, 1, 10)
                \cup AnyDetection(8, 4, 12) \cup AnyDetection(5, 1, 12)
=============================================================================
