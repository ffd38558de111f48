-------------------------------- MODULE Stream --------------------------------
(***************************************************************************)
(* Output through a FILE of the C library, libc/stdio/stream.c.  A program *)
(* has one thread; fwrite is split at its calls of write, which may fail   *)
(* or take only the first characters, as devfs_root_write does: it takes   *)
(* none and returns 0.  The library sets buf_mode to FBM_NEWLINE; the      *)
(* other modes are for programs that change the FILE.  fputc, fputs,       *)
(* putchar and the printers are fwrite of one or more characters.          *)
(* Characters are numbers, Newline one of them.                            *)
(***************************************************************************)
EXTENDS Integers, Sequences

CONSTANTS
  BufModes,     \* the values of buf_mode
  BufSize,      \* buf_size
  Newline, Chars,
  MaxGiven,     \* bound: characters given to one fwrite
  MaxTotal      \* bound: characters given in all

ASSUME StreamAssumption ==
  /\ BufModes \subseteq {"FBM_OVERFLOW", "FBM_NEWLINE", "FBM_FLUSH"}
  /\ {MaxGiven, MaxTotal} \subseteq Nat /\ BufSize \in Nat \ {0}
  /\ Chars \subseteq Nat /\ Newline \in Chars

Outside == <<-1>>   \* not in fwrite

VARIABLES
  buf_mode,
  buf,        \* buf, of length num
  fwriting,   \* the characters fwrite has not taken yet, or Outside
  loc,        \* whether the last batch ended in a newline
  sent,       \* what write has taken
  given,      \* ghost: all characters fwrite has taken, over all calls
  places,     \* ghost: where in given each character of sent is
  dropped,    \* ghost: the characters of the buffer that a write left over
  unsent      \* ghost: a write has failed, and none succeeded since

streamVars == <<buf_mode, buf, fwriting, loc, sent, given, places, dropped, unsent>>

StreamInit ==
  /\ buf_mode \in BufModes
  /\ buf = <<>> /\ fwriting = Outside /\ loc = FALSE
  /\ sent = <<>> /\ given = <<>> /\ places = <<>> /\ dropped = 0 /\ unsent = FALSE

\* write(fd, data, Len(data)) returns n; data is in given after the first k.
WriteTakes(data, n, k) ==
  /\ sent' = sent \o SubSeq(data, 1, n)
  /\ places' = places \o [i \in 1..n |-> k + i]

FlushFails == unsent' = TRUE /\ UNCHANGED <<buf, sent, places, dropped>>

\* Mutation: num is not reset.
FlushKeepsBuffer ==
  \/ \E n \in 0..Len(buf) :
       /\ WriteTakes(buf, n, Len(given) - Len(buf)) /\ unsent' = FALSE
       /\ UNCHANGED <<buf, dropped>>
  \/ FlushFails

\* write(fd, buf, num).  After an error the buffer is as it was; after any other
\* result it is empty, also when write has not taken all of it.
Flush ==
  \/ \E n \in 0..Len(buf) :
       /\ WriteTakes(buf, n, Len(given) - Len(buf)) /\ unsent' = FALSE
       /\ buf' = <<>> /\ dropped' = dropped + (Len(buf) - n)
  \/ FlushFails

\* fwrite and, in the mode FBM_FLUSH, fwrite_flush: the buffer is not used, and
\* the caller learns how much was written, nothing after an error.
fwrite(data) ==
  /\ fwriting = Outside /\ Len(given) + Len(data) <= MaxTotal
  /\ IF buf_mode = "FBM_FLUSH"
     THEN /\ \E n \in 0..Len(data) :
               WriteTakes(data, n, Len(given)) /\ given' = given \o SubSeq(data, 1, n)
          /\ UNCHANGED <<fwriting, dropped, unsent>>
     ELSE fwriting' = data /\ UNCHANGED <<sent, given, places, dropped, unsent>>
  /\ loc' = FALSE
  /\ UNCHANGED <<buf_mode, buf>>

MustFlush == loc \/ Len(buf) = BufSize

\* The head of the loop: flush if the stream is full or a newline was found; an
\* error ends fwrite, and what has been taken stays in the buffer.
FlushStep ==
  /\ fwriting # Outside /\ MustFlush
  /\ Flush
  /\ loc' = FALSE
  /\ fwriting' = IF unsent' \/ fwriting = <<>> THEN Outside ELSE fwriting
  /\ UNCHANGED <<buf_mode, given>>

FoundNewline(data) == buf_mode = "FBM_NEWLINE" /\ \E i \in DOMAIN data : data[i] = Newline

FirstNewline(data) ==
  CHOOSE i \in DOMAIN data : data[i] = Newline /\ \A j \in 1..(i - 1) : data[j] # Newline

\* As much as fits, up to the first newline in that.
BatchSize(data) ==
  LET fits == IF Len(data) < BufSize - Len(buf) THEN Len(data) ELSE BufSize - Len(buf)
      batch == SubSeq(data, 1, fits) IN
  IF FoundNewline(batch) THEN FirstNewline(batch) ELSE fits

\* The rest of the loop, and the return when all is taken.
FillStep ==
  /\ fwriting # Outside /\ ~MustFlush
  /\ IF fwriting = <<>> THEN fwriting' = Outside /\ UNCHANGED <<buf, loc, given>>
     ELSE LET batch == SubSeq(fwriting, 1, BatchSize(fwriting)) IN
          /\ loc' = FoundNewline(batch)
          /\ buf' = buf \o batch /\ given' = given \o batch
          /\ fwriting' = SubSeq(fwriting, Len(batch) + 1, Len(fwriting))
  /\ UNCHANGED <<buf_mode, sent, places, dropped, unsent>>

fflush ==
  /\ fwriting = Outside
  /\ Flush
  /\ UNCHANGED <<buf_mode, fwriting, loc, given>>

StreamNext ==
  \/ \E n \in 1..MaxGiven : \E data \in [1..n -> Chars] : fwrite(data)
  \/ FlushStep \/ FillStep \/ fflush

StreamSpec == StreamInit /\ [][StreamNext]_streamVars

-----------------------------------------------------------------------------

(* Across batches, flushes, failed and short writes: as long as every write *)
(* that succeeds takes the whole buffer, what the file has got and what the *)
(* buffer holds are together the characters fwrite took, in order, each     *)
(* once.  After a short write exactly the characters that it left over are  *)
(* missing, since num is set to 0 ("What do we do if we didn't write all of *)
(* the data?"): the others are in order and none is written twice, and the  *)
(* buffer holds the newest.  The buffer is never overrun.                   *)
StreamInOrder ==
  /\ dropped = 0 => sent \o buf = given
  /\ Len(sent) + Len(buf) + dropped = Len(given)
  /\ \A i \in DOMAIN sent : places[i] \in 1..(Len(given) - Len(buf)) /\ sent[i] = given[places[i]]
  /\ \A i, j \in DOMAIN sent : i < j => places[i] < places[j]
  /\ \A i \in DOMAIN buf : buf[i] = given[Len(given) - Len(buf) + i]
  /\ Len(buf) <= BufSize

(* A line is not held back: once fwrite has returned, no newline waits in   *)
(* the buffer of a stream in FBM_NEWLINE, and no full buffer either, unless *)
(* the write failed.                                                        *)
LinesSent ==
  fwriting = Outside /\ ~unsent =>
    /\ Len(buf) < BufSize
    /\ buf_mode = "FBM_NEWLINE" => \A i \in DOMAIN buf : buf[i] # Newline

(* The two together: output is in order and in time.                        *)
StreamSound == StreamInOrder /\ LinesSent

===============================================================================
