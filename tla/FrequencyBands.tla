--------------------------- MODULE FrequencyBands ---------------------------
(***************************************************************************)
(* Frequencies, bins and sample counts: the conversions of FFTBackend.h    *)
(* and WaterfallBackend.h as operators on integers.  Frequencies are whole *)
(* numbers of Hz, or where a bin's is meant that many 2 * bins-ths of one. *)
(* The code computes in single precision; the operators are exact.         *)
(***************************************************************************)
EXTENDS Integers

\* binToFrequency(bin), times 2 * bins.
BinFrequency(bins, rate, bin) == rate * (2 * bin - bins)

\* binToFrequency(), the distance of two bins, times 2 * bins.
BinWidth(bins, rate) == BinFrequency(bins, rate, 1) - BinFrequency(bins, rate, 0)

\* A faulty conversion that rounds up.
BinAbove(bins, rate, frequency) == (bins * (2 * frequency + rate)) \div (2 * rate) + 1

\* n * (frequency / sr + 0.5), made an int.  Below 0 it does not matter that
\* an int is rounded towards 0.
BinBelow(bins, rate, frequency) == (bins * (2 * frequency + rate)) \div (2 * rate)

\* frequencyToBin()
FrequencyToBin(bins, rate, frequency) ==
  LET bin == BinBelow(bins, rate, frequency) IN
  IF bin < 0 THEN 0 ELSE IF bin >= bins THEN bins - 1 ELSE bin

\* fftSamplesToRaw() of WaterfallBackend, with the FFT's sample rate as it is.
FFTSamplesToRaw(rate, hop, rows) == rows * hop

\* A faulty fftSamplesToRaw() of Recorder that rounds the rate up.
RecorderToRawShort(rate, hop, rows) == (rows * rate) \div (rate \div hop + 1)

\* fftSamplesToRaw() of Recorder, whose getFFTSampleRate() returns an int.
RecorderToRaw(rate, hop, rows) == (rows * rate) \div (rate \div hop)
=============================================================================
