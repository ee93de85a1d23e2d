------------------------------ MODULE FITSWriter ------------------------------
(***************************************************************************)
(* The writer of FITS files: FITSWriter of src/src/FITSWriter.cpp.  Each   *)
(* of its calls is one of cfitsio, which is external: it does nothing if   *)
(* the status says there was an error, and may set it if not; closing a    *)
(* file closes it all the same.  What is written is the rows of an image.  *)
(***************************************************************************)
EXTENDS Integers

VARIABLES
  fits,       \* file_
  status,     \* status_; 0 is no error
  lastStatus, \* lastStatus_
  dimensions, \* dimensions_
  image,      \* what is in the file: its rows, by number
  logged      \* history: an error has been logged

fitsVars == <<fits, status, lastStatus, dimensions, image, logged>>

\* The constructor.
FITSInit ==
  /\ fits = "none"
  /\ status = 0
  /\ lastStatus = 0
  /\ dimensions = << >>
  /\ image = << >>
  /\ logged = FALSE

\* Another writer, in whatever state this one is.
NewWriter ==
  /\ fits' = "none"
  /\ status' = 0
  /\ lastStatus' = 0
  /\ dimensions' = << >>
  /\ image' = << >>
  /\ logged' = FALSE

\* A faulty CHECK_STATUS that remembers a status before it has looked at it.
NothingNew == FALSE

\* CHECK_STATUS logs an error if it is new.
IsNews == status' > 0 /\ lastStatus # status'

CheckStatus ==
  /\ logged' = (logged \/ IsNews)
  /\ lastStatus' = status'

\* A faulty writer that forgets an error.
CallsAnew == status' \in {0, 1}

\* A call of cfitsio: it does what it should if there is no error.
Calls == status' \in IF status > 0 THEN {status} ELSE {0, 1}

Open ==
  /\ Calls
  /\ CheckStatus
  /\ fits' = IF status' = 0 THEN "open" ELSE fits
  /\ UNCHANGED <<dimensions, image>>

CreateImage(width, height) ==
  /\ Calls
  /\ CheckStatus
  /\ dimensions' = [d \in {0, 1} |-> IF d = 0 THEN width ELSE height]
  /\ UNCHANGED <<fits, image>>

\* writeHeader(), comment() and date(), any number of them.
WriteHeader ==
  /\ Calls
  /\ CheckStatus
  /\ UNCHANGED <<fits, dimensions, image>>

\* FITS counts from 1.
Pixel(y) == y + 1

Write(y, data) ==
  /\ Calls
  /\ CheckStatus
  /\ image' = IF status' > 0 THEN image
              ELSE [p \in DOMAIN image \cup {Pixel(y)} |-> IF p = Pixel(y) THEN data ELSE image[p]]
  /\ UNCHANGED <<fits, dimensions>>

\* The error, if closing makes one, is logged, and then forgotten.
Close ==
  /\ \E error \in IF status > 0 THEN {status} ELSE {0, 1} :
       logged' = (logged \/ (error > 0 /\ lastStatus # error))
  /\ fits' = "closed"
  /\ status' = 0
  /\ lastStatus' = 0
  /\ dimensions' = << >>
  /\ UNCHANGED image
=============================================================================
