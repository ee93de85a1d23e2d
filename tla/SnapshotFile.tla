---------------------------- MODULE SnapshotFile ----------------------------
(***************************************************************************)
(* What a recorder makes of the rows, in numbers of bins and samples: the  *)
(* bands start() works out, what BolidRecorder::update() reads of a row,   *)
(* and the files write() and writeRaw() make of a snapshot through         *)
(* FITSWriter (src/src/WaterfallBackend.cpp, BolidRecorder.cpp).           *)
(*                                                                         *)
(* It is one recorder, one row and one snapshot of a stream in any         *)
(* configuration; when snapshots are made, and from which rows of the ring *)
(* buffer, is SnapshotRecorder's and BolidRecorder's subject.  Rows and    *)
(* samples are numbered from the snapshot's first.  A row is the           *)
(* magnitudes of its bins, small numbers.                                  *)
(***************************************************************************)
EXTENDS FITSWriter, FrequencyBands, FiniteSetsExt

CONSTANTS
  Configs,    \* configurations: bins, overlap, rate, and the bands in Hz
  Magnitudes, \* what a bin may hold
  MaxLength   \* a bound on a snapshot's rows

ASSUME ConfigAssumption ==
  /\ Magnitudes \subseteq Nat
  /\ MaxLength \in Nat \ {0}
  /\ \A c \in Configs :
       /\ c.bins \in Nat \ {0} /\ c.overlap \in 0..(c.bins - 1)
       /\ c.rate \in Nat /\ c.rate % 2 = 0 /\ c.rate >= c.bins - c.overlap
       /\ {c.low, c.high, c.lowDetect, c.highDetect, c.lowNoise, c.highNoise} \subseteq
            -(c.rate \div 2)..(c.rate \div 2)
       /\ c.range \in 1..c.rate

VARIABLES
  config, \* the configuration
  length, \* length of the snapshot
  step,   \* where the recorder is
  kind,   \* which of its two files it writes
  band,   \* leftFrequency_, leftBin_ and rightBin_
  reads,  \* the bins update() has read
  y       \* the row of the file that is next

fileVars == <<fitsVars, config, length, step, kind, band, reads, y>>

Abs(n) == IF n < 0 THEN -n ELSE n

Bin(frequency) == FrequencyToBin(config.bins, config.rate, frequency)

Hop == config.bins - config.overlap

FileInit ==
  /\ FITSInit
  /\ config \in Configs
  /\ length \in 1..MaxLength
  /\ step = "starting"
  /\ kind = "snapshot"
  /\ band = << >>
  /\ reads = {}
  /\ y = 0

-----------------------------------------------------------------------------
(* start()                                                                 *)

\* The constructor's ORDER_PAIR.
Ordered(a, b) == <<Min({a, b}), Max({a, b})>>

\* The bins between two frequencies, the upper one not among them.
BinsOf(f, g) ==
  LET bins == Ordered(Bin(f), Bin(g)) IN [low |-> bins[1], width |-> bins[2] - bins[1]]

\* The band of the file: all of it if no frequencies are given.
FileBand ==
  IF config.low = config.high
  THEN [left |-> -(config.rate \div 2), leftBin |-> 0, rightBin |-> config.bins]
  ELSE LET f == Ordered(config.low, config.high)
       IN  [left |-> f[1], leftBin |-> Bin(f[1]), rightBin |-> Bin(f[2])]

Start ==
  /\ step = "starting"
  /\ band' = FileBand
  /\ step' = "reading"
  /\ UNCHANGED <<fitsVars, config, length, kind, reads, y>>

-----------------------------------------------------------------------------
(* update()                                                                *)

DetectBins == BinsOf(config.lowDetect, config.highDetect)
NoiseBins == BinsOf(config.lowNoise, config.highNoise)

\* averageBinRange_
AverageRange == Bin(config.range) - Bin(0)

\* The bins peak() compares.
Below(width) == 0..(width - 1)

\* peak(): the last of the highest.
Peak(row) ==
  Max({b \in Below(DetectBins.width) : \A other \in Below(DetectBins.width) :
         row[DetectBins.low + b] >= row[DetectBins.low + other]})

\* A faulty update() that averages a whole range in front of the peak.
AveragedBefore(peak) ==
  LET from == DetectBins.low + peak - AverageRange IN from..(from + AverageRange - 1)

\* average(): which bins.
Averaged(peak) ==
  LET from == DetectBins.low + peak - AverageRange \div 2 IN from..(from + AverageRange - 1)

\* Which of the lowest noise() takes.
Quartile == NoiseBins.width \div 4

\* The bins a row with its peak there is judged by.
ReadOf(peak) ==
  Averaged(peak)
    \cup {DetectBins.low + b : b \in Below(DetectBins.width)}
    \cup {NoiseBins.low + b : b \in 0..(NoiseBins.width - 1)}

\* What the row holds in the band, and a bin further, is all that matters.
ReadRow ==
  /\ step = "reading"
  /\ DetectBins.width > 0 /\ AverageRange > 0   \* the code's assertions
  /\ \E row \in [DetectBins.low..(DetectBins.low + DetectBins.width) -> Magnitudes] :
        reads' = ReadOf(Peak(row))
  /\ step' = "opening"
  /\ UNCHANGED <<fitsVars, config, length, kind, band, y>>

-----------------------------------------------------------------------------
(* write(), then writeRaw(), by the worker                                 *)

IsRaw == kind = "raw"

\* The image: bins by rows, or I and Q by samples.
Width == IF IsRaw THEN 2 ELSE band.rightBin - band.leftBin
Height == IF IsRaw THEN RecorderToRaw(config.rate, Hop, length) ELSE length

\* What is written of a row: which row, and from which column on.
Pixels == [row |-> y, from |-> IF IsRaw THEN 0 ELSE band.leftBin, count |-> dimensions[0]]

\* A file that cannot be opened is not closed.
OpenFile ==
  /\ step = "opening"
  /\ Open
  /\ step' = IF status' = 0 THEN "creating" ELSE "written"
  /\ UNCHANGED <<config, length, kind, band, reads, y>>

CreateFile ==
  /\ step = "creating"
  /\ CreateImage(Width, Height)
  /\ step' = "heading"
  /\ UNCHANGED <<config, length, kind, band, reads, y>>

HeadFile ==
  /\ step = "heading"
  /\ WriteHeader
  /\ step' = "filling"
  /\ y' = 0
  /\ UNCHANGED <<config, length, kind, band, reads>>

FillFile ==
  /\ step = "filling"
  /\ y < Height
  /\ Write(y, Pixels)
  /\ y' = y + 1
  /\ UNCHANGED <<config, length, step, kind, band, reads>>

CloseFile ==
  /\ step = "filling"
  /\ y = Height
  /\ Close
  /\ step' = "written"
  /\ UNCHANGED <<config, length, kind, band, reads, y>>

\* Raw data are included, or not; they get a writer of their own.
NextFile ==
  /\ step = "written"
  /\ \/ /\ ~IsRaw
        /\ kind' = "raw"
        /\ step' = "opening"
        /\ NewWriter
     \/ /\ kind' = kind
        /\ step' = "done"
        /\ UNCHANGED fitsVars
  /\ UNCHANGED <<config, length, band, reads, y>>

FileNext ==
  \/ Start \/ ReadRow
  \/ OpenFile \/ CreateFile \/ HeadFile \/ FillFile \/ CloseFile \/ NextFile

FileSpec == FileInit /\ [][FileNext]_fileVars

-----------------------------------------------------------------------------
(* Properties                                                              *)

\* What requestBufferSize() and startStream() make of the raw buffer, which is
\* not less: a snapshot has at most the rows requestBufferSize() thinks of.
RawCapacity == FFTSamplesToRaw(config.rate, Hop, 8 * length)

\* A file has rows from its first on without a gap, each in its place
\* (FITSWriter::write()); if no error has been logged it has all of them, and
\* where raw data are concerned all the snapshot's samples, in whatever the
\* buffer of startStream() holds (WaterfallBackend.cpp:141, 214).
FilesWhole ==
  fits = "closed" =>
    /\ DOMAIN image = 1..Cardinality(DOMAIN image)
    /\ \A p \in DOMAIN image : image[p].row = p - 1 /\ image[p].count = Width
    /\ ~logged => IF IsRaw THEN Cardinality(DOMAIN image) \in (length * Hop)..RawCapacity
                           ELSE Cardinality(DOMAIN image) = length

\* The frequency CRVAL1 and CDELT1 give a column is that of its bin, less than
\* a bin off; the columns are bins of the row; and the band is covered but for
\* a bin (frequencyToBin() and start()).
ColumnsNamed ==
  band # << >> =>
    LET delta == BinWidth(config.bins, config.rate)
        right == IF config.low = config.high THEN config.rate \div 2 ELSE Max({config.low, config.high})
    IN  /\ band.leftBin >= 0 /\ band.rightBin <= config.bins
        /\ \A column \in 0..(band.rightBin - band.leftBin - 1) :
             2 * config.bins * band.left + column * delta
               - BinFrequency(config.bins, config.rate, band.leftBin + column) \in 0..(delta - 1)
        /\ BinFrequency(config.bins, config.rate, band.rightBin)
             >= 2 * config.bins * right - delta

\* A detection band with room on both sides for half of what is averaged, and
\* a quarter of a bin more below it if the bins are odd; noise from more than a bin.
BandsFit ==
  LET detect == Ordered(config.lowDetect, config.highDetect)
  IN  /\ 2 * config.bins * (2 * detect[1] - config.range + config.rate) >= config.rate * (config.bins % 2)
      /\ 2 * detect[2] + config.range <= config.rate
      /\ config.bins * Abs(config.highNoise - config.lowNoise) > config.rate

\* Given such bands, update() reads bins of the row and of nothing else,
\* wherever the peak is (BolidRecorder.cpp:121-132), and noise() an element of
\* its buffer.
ReadsInsideRow ==
  BandsFit => reads \subseteq 0..(config.bins - 1) /\ Quartile < NoiseBins.width

\* Known to fail: a raw file has the samples of its snapshot and no others.
RawIsExact ==
  fits = "closed" /\ IsRaw /\ ~logged => Cardinality(DOMAIN image) = length * Hop
=============================================================================
