------------------------------- MODULE Zmodem -------------------------------
(***************************************************************************)
(* A file transfer between two boards that run the ZMODEM sketch: SZ on    *)
(* one, RZ on the other, and a serial line that loses and garbles a        *)
(* bounded number of things.  A header or a data subpacket is one token of *)
(* the line: its bytes, escapes and checks are abstracted to whether it    *)
(* arrives whole.                                                          *)
(***************************************************************************)
EXTENDS Integers, SequencesExt

CONSTANTS
  Units,        \* what files are made of
  Files,        \* the names to send, in the order of the directory
  Source,       \* [names -> units of the file]
  Cards,        \* what the receiving card may be: the units it holds under
                \* each name, and the names it cannot open for writing
  BlkLen,       \* units of a subpacket (blklen)
  TryzTries,    \* tries of tryz (15)
  RzTries,      \* errors in a row rzfile forgives (20)
  Faults        \* how often the line may do wrong

Names == {Files[i] : i \in DOMAIN Files}

ASSUME FilesAssumption ==
  /\ Files \in Seq(Names) \ {<<>>} /\ {"none", "closed"} \cap Names = {}
  /\ \A i, j \in DOMAIN Files : Files[i] = Files[j] => i = j
  /\ Source \in [Names -> Seq(Units)]
  /\ \A c \in Cards : /\ c.locked \subseteq Names /\ c.held \in [Names -> Seq(Units)]
                      /\ \A f \in Names : \/ Len(c.held[f]) > Len(Source[f])
                                          \/ IsPrefix(c.held[f], Source[f])
  /\ {BlkLen, TryzTries, RzTries} \subseteq Nat \ {0} /\ Faults \in Nat

VARIABLES
  toRx, toTx,   \* what is on the line, each way
  faults,       \* how often the line may still do wrong
  spc,          \* where the sender is
  file,         \* index of the file being sent
  Txpos,        \* position of the next unit to send, and of the open file
  Lastsync,     \* last position the receiver asked for
  Eofseen,      \* the last read came short
  sent,         \* [names -> what wcs returned]
  rpc,          \* where the receiver is
  n,            \* tries left in the receiver's loop
  fout,         \* the file the receiver has open
  rxbytes,      \* where the receiver believes it is in it
  card,         \* the receiving card at first
  stored,       \* [names -> units on it now]
  received      \* what wcreceive returned

line   == <<toRx, toTx, faults>>
sender == <<spc, file, Txpos, Lastsync, Eofseen, sent>>
receiver == <<rpc, n, fout, rxbytes, card, stored, received>>
vars == <<line, sender, receiver>>

(* Tokens. *)
Header(type, pos)     == [kind |-> "header", type |-> type, pos |-> pos, good |-> TRUE]
Subpacket(units, end) == [kind |-> "data", units |-> units, end |-> end, good |-> TRUE]
canit == [kind |-> "can"]      \* ten CAN
over  == [kind |-> "over"]     \* "OO"

Ends   == {"ZCRCE", "ZCRCG", "ZCRCW"}

(* What a read of the line returns: a frame type, a subpacket end, ZCAN,   *)
(* ERROR or TIMEOUT in c, and what is left on the line in rest.            *)
Silence == [c |-> "TIMEOUT", rest |-> <<>>]
After(ch, i) == SubSeq(ch, i + 1, Len(ch))

(* zgethdr passes over data, except that the CAN ZCRCW that ends some is   *)
(* an instant ERROR.                                                       *)
PassedOver(tok) == tok.kind = "over" \/ (tok.kind = "data" /\ tok.end # "ZCRCW")

(* The checks of a header hold.                                            *)
Whole(tok) == tok.kind = "header" /\ tok.good

zgethdr(ch) ==
  LET stops == {j \in DOMAIN ch : ~PassedOver(ch[j])}
      i     == Min(stops)
  IN IF stops = {} THEN Silence
     ELSE CASE ch[i].kind = "can" -> [c |-> "ZCAN", rest |-> After(ch, i)]
            [] Whole(ch[i]) ->
                 [c |-> ch[i].type, pos |-> ch[i].pos, rest |-> After(ch, i)]
            [] OTHER -> [c |-> "ERROR", rest |-> After(ch, i)]

(* zrdata takes whatever comes for data until an end of data: a subpacket  *)
(* that had anything before it fails its check.                            *)
EndsData(tok) == tok.kind = "can" \/ (tok.kind = "data" /\ tok.end # "none")

zrdata(ch) ==
  LET stops == {j \in DOMAIN ch : EndsData(ch[j])}
      i     == Min(stops)
  IN IF stops = {} THEN Silence
     ELSE CASE ch[i].kind = "can" -> [c |-> "ZCAN", rest |-> After(ch, i)]
            [] i = 1 /\ ch[i].kind = "data" /\ ch[i].good ->
                 [c |-> ch[i].end, units |-> ch[i].units, rest |-> After(ch, i)]
            [] OTHER -> [c |-> "ERROR", rest |-> After(ch, i)]

(* What is said to a program that has ended is of no account.              *)
RzGone == rpc \in {"end", "xmodem"}
SzGone == spc = "end"
Says(tokens) == toRx' = IF RzGone THEN <<>> ELSE toRx \o tokens
Replies(tok) == toTx' = IF SzGone THEN <<>> ELSE Append(toTx, tok)

(* Where each side waits for the other; a wait ends by itself only when    *)
(* there is nothing to come, or at the cost of a fault while there is.     *)
SzListens == {"file_ack", "drain", "wait", "check_sync", "peek_sync", "eof_ack", "fin_ack"}

SzIdle == SzGone \/ (spc \in SzListens /\ zgethdr(toTx) = Silence)
RzIdle ==
  \/ RzGone
  \/ rpc \in {"tryz_hdr", "rz_hdr"} /\ zgethdr(toRx) = Silence
  \/ rpc \in {"tryz_name", "rz_skip", "rz_data"} /\ zrdata(toRx) = Silence
  \/ rpc = "bibi_ack" /\ toRx = <<>>

Late(ch) == [Silence EXCEPT !.rest = ch]

Reads(r, reading, idle) ==
  IF r = reading THEN (r = Silence => idle) /\ UNCHANGED faults
                 ELSE faults > 0 /\ faults' = faults - 1

SzReads(r) == Reads(r, zgethdr(toTx), RzIdle) /\ toTx' = r.rest
RzReads(r, reading) == Reads(r, reading, SzIdle) /\ toRx' = r.rest

Init ==
  /\ toRx \in {<<>>, <<Header("ZRQINIT", 0)>>} /\ toTx = <<>> /\ faults = Faults
  /\ spc = "file" /\ file = 1 /\ Txpos = 0 /\ Lastsync = 0 /\ Eofseen = FALSE
  /\ sent = [f \in Names |-> "none"]
  /\ rpc = "tryz" /\ n = TryzTries /\ fout = "none" /\ rxbytes = 0
  /\ card \in Cards /\ stored = card.held /\ received = "none"

-----------------------------------------------------------------------------
(* The sender.                                                             *)
size == Len(Source[Files[file]])

(* Defective variant: a silent line is asked again.                        *)
EndingButTimeout == {"ZCAN", "ZFIN"}

(* The answers after which the sender expects no other.                    *)
Ending == {"ZCAN", "ZFIN", "TIMEOUT"}

(* SZ goes on to the next file only after a good one.                      *)
NextFile(result) ==
  IF result = "OK" /\ file < Len(Files)
    THEN spc' = "file" /\ file' = file + 1
    ELSE spc' = "fin" /\ UNCHANGED file

(* wcs returns, and is called for the next file.                           *)
wcs(result) ==
  /\ sent' = [sent EXCEPT ![Files[file]] = result]
  /\ Eofseen' = FALSE
  /\ NextFile(result)

(* The first block: the name of the file, its length and what is to come.  *)
wctxpn == Subpacket(<<Files[file]>>, "ZCRCW")

zsendfile ==
  /\ spc = "file" /\ spc' = "file_ack"
  /\ Says(<<Header("ZFILE", 0), wctxpn>>)
  /\ UNCHANGED <<toTx, faults, file, Txpos, Lastsync, Eofseen, sent, receiver>>

FileAnswered(r) ==
  \/ /\ r.c \in Ending
     /\ wcs("ERROR") /\ UNCHANGED <<Txpos, Lastsync>>
  \/ /\ r.c = "ZRPOS"
     /\ IF r.pos > size THEN wcs("ERROR") /\ UNCHANGED <<Txpos, Lastsync>>
        ELSE /\ spc' = "zdata" /\ Txpos' = r.pos /\ Lastsync' = r.pos - 1
             /\ UNCHANGED <<file, Eofseen, sent>>
  \/ /\ r.c \notin Ending \cup {"ZRPOS"}
     /\ spc' = IF r.c = "ZRINIT" THEN "drain" ELSE "file"
     /\ UNCHANGED <<file, Txpos, Lastsync, Eofseen, sent>>

zsendfileAnswer ==
  /\ spc = "file_ack"
  /\ \E r \in {zgethdr(toTx), Late(toTx)} : SzReads(r) /\ FileAnswered(r)
  /\ UNCHANGED <<toRx, receiver>>

(* After a ZRINIT the sender listens on: the next header is taken for the  *)
(* answer, and silence makes it ask again.                                 *)
zsendfileDrain ==
  /\ spc = "drain"
  /\ LET headers == {i \in DOMAIN toTx : toTx[i].kind = "header"}
     IN \/ /\ headers # {}
           /\ toTx' = After(toTx, Min(headers) - 1) /\ spc' = "file_ack"
        \/ headers = {} /\ RzIdle /\ toTx' = <<>> /\ spc' = "file"
  /\ UNCHANGED <<toRx, faults, file, Txpos, Lastsync, Eofseen, sent, receiver>>

zsendfdata ==
  /\ spc = "zdata" /\ spc' = "stream"
  /\ Says(<<Header("ZDATA", Txpos)>>)
  /\ UNCHANGED <<toTx, faults, file, Txpos, Lastsync, Eofseen, sent, receiver>>

(* What the next read of the file gives.                                   *)
zfilbuf == SubSeq(Source[Files[file]], Txpos + 1, Min({Txpos + BlkLen, size}))

(* A subpacket asks for an answer when the receiver has just complained    *)
(* about its place, and after junk on the line or a full window.           *)
zsendfdataNext ==
  /\ spc = "stream"
  /\ LET buf == zfilbuf
         eof == Len(buf) < BlkLen
     IN \E e \in IF eof THEN {"ZCRCE"} ELSE IF Txpos = Lastsync THEN {"ZCRCW"} ELSE {"ZCRCG", "ZCRCW"} :
          /\ Says(<<Subpacket(buf, e)>>)
          /\ Txpos' = Txpos + Len(buf) /\ Eofseen' = eof
          /\ spc' = IF e = "ZCRCW" THEN "wait" ELSE "check"
  /\ UNCHANGED <<toTx, faults, file, Lastsync, sent, receiver>>

(* Between subpackets, and before a new ZDATA, the sender looks whether    *)
(* anything has come; what is on its way may not be there yet.             *)
ReadCheck ==
  /\ spc \in {"check", "peek"}
  /\ \/ /\ toTx # <<>>
        /\ spc' = IF spc = "check" THEN "check_sync" ELSE "peek_sync"
     \/ spc' = IF spc = "peek" THEN "zdata" ELSE IF Eofseen THEN "eof" ELSE "stream"
  /\ UNCHANGED <<line, file, Txpos, Lastsync, Eofseen, sent, receiver>>

zsendfdataEof ==
  /\ spc = "eof" /\ spc' = "eof_ack"
  /\ Says(<<Header("ZEOF", Txpos)>>)
  /\ UNCHANGED <<toTx, faults, file, Txpos, Lastsync, Eofseen, sent, receiver>>

(* getinsync, called from four places of zsendfdata, and what each of them *)
(* does with its result.                                                   *)
SyncReturn(c) ==
  CASE c = "ZRPOS" -> IF spc = "eof_ack" THEN "zdata" ELSE "peek"
    [] c = "ZACK"  -> CASE spc = "eof_ack" -> "eof" [] spc = "check_sync" -> "check" [] OTHER -> "peek"

Synced(r) ==
  LET flag   == spc \in {"check_sync", "peek_sync"}
      seek   == r.c = "ZRPOS" /\ r.pos <= size
      failed == r.c \in Ending \/ (r.c = "ZRPOS" /\ ~seek)
      acked  == r.c = "ZACK" /\ (flag \/ Txpos = r.pos)
      on     == r.c = "ZACK" /\ ~acked
      nak    == ~(seek \/ failed \/ acked \/ on \/ r.c = "ZRINIT")
      stopped == spc = "check_sync" /\ (seek \/ failed \/ r.c = "ZRINIT")
  IN /\ Says(CASE stopped -> <<Subpacket(<<>>, "ZCRCE")>> [] nak -> <<Header("ZNAK", 0)>> [] OTHER -> <<>>)
     /\ CASE failed -> wcs("ERROR") [] r.c = "ZRINIT" -> wcs("OK")
          [] OTHER -> /\ spc' = IF seek \/ acked THEN SyncReturn(r.c) ELSE spc
                      /\ Eofseen' = (Eofseen /\ ~seek)
                      /\ UNCHANGED <<file, sent>>
     /\ IF seek THEN Txpos' = r.pos /\ Lastsync' = r.pos ELSE UNCHANGED <<Txpos, Lastsync>>

getinsync ==
  /\ spc \in {"wait", "check_sync", "peek_sync", "eof_ack"}
  /\ \E r \in {zgethdr(toTx), Late(toTx)} : SzReads(r) /\ Synced(r)
  /\ UNCHANGED receiver

saybibi ==
  /\ spc = "fin" /\ spc' = "fin_ack"
  /\ Says(<<Header("ZFIN", 0)>>)
  /\ UNCHANGED <<toTx, faults, file, Txpos, Lastsync, Eofseen, sent, receiver>>

saybibiAnswer ==
  /\ spc = "fin_ack"
  /\ \E r \in {zgethdr(toTx), Late(toTx)} :
       /\ SzReads(r)
       /\ Says(IF r.c = "ZFIN" THEN <<over>> ELSE <<>>)
       /\ spc' = IF r.c \in Ending THEN "end" ELSE "fin"
  /\ UNCHANGED <<file, Txpos, Lastsync, Eofseen, sent, receiver>>

-----------------------------------------------------------------------------
(* The receiver.  fout is "none" until the first file has come: only the   *)
(* first tryz may fall back to XMODEM, which ends this model.              *)
Give(result) == rpc' = "end" /\ received' = result /\ fout' = "closed"
fubar == Replies(canit) /\ Give("ERROR") /\ UNCHANGED <<n, rxbytes>>
Stay(pc) == rpc' = pc /\ UNCHANGED <<toTx, n, fout, rxbytes, received>>

(* One error more: the receiver goes on at pc or has had enough.           *)
Forgive(pc) ==
  IF n = 0 THEN fubar
  ELSE rpc' = pc /\ n' = n - 1 /\ UNCHANGED <<toTx, fout, rxbytes, received>>

tryz ==
  /\ rpc = "tryz"
  /\ CASE n > 0 -> /\ Replies(Header("ZRINIT", 0)) /\ rpc' = "tryz_hdr" /\ n' = n - 1
                   /\ UNCHANGED <<fout, rxbytes, received>>
       [] n = 0 /\ fout = "none" -> Stay("xmodem")
       [] OTHER -> fubar
  /\ UNCHANGED <<toRx, faults, card, stored, sender>>

tryzHeader ==
  /\ rpc = "tryz_hdr"
  /\ \E r \in {zgethdr(toRx), Late(toRx)} :
       /\ RzReads(r, zgethdr(toRx))
       /\ CASE r.c = "ZFILE" -> Stay("tryz_name")
            [] r.c = "ZFIN" -> rpc' = "bibi" /\ n' = 3 /\ UNCHANGED <<toTx, fout, rxbytes, received>>
            [] r.c = "ZCAN" -> fubar
            [] OTHER -> Stay("tryz")
  /\ UNCHANGED <<card, stored, sender>>

(* Defective variant: the place in the file before is kept.                *)
OpenInPlace(f) == fout' = (IF f \in card.locked THEN "closed" ELSE f) /\ UNCHANGED rxbytes

(* The file is opened for appending; what follows what is there will do.   *)
procheader(f) ==
  IF f \in card.locked THEN fout' = "closed" /\ UNCHANGED rxbytes
                       ELSE fout' = f /\ rxbytes' = Len(stored[f])

(* The name has come.  When the file cannot be opened, rzfile returns      *)
(* ZSKIP with tryzhdrtype set to ZSKIP, and tryz sets that to ZRINIT       *)
(* before it sends anything.                                               *)
rzfile(f) ==
  /\ procheader(f)
  /\ IF f \in card.locked THEN rpc' = "tryz" /\ n' = TryzTries
                          ELSE rpc' = "rz_pos" /\ n' = RzTries

tryzName ==
  /\ rpc = "tryz_name"
  /\ \E r \in {zrdata(toRx), Late(toRx)} :
       /\ RzReads(r, zrdata(toRx))
       /\ IF r.c = "ZCRCW" THEN rzfile(r.units[1]) /\ UNCHANGED <<toTx, received>>
          ELSE /\ Replies(Header("ZNAK", 0)) /\ rpc' = "tryz_hdr"
               /\ UNCHANGED <<n, fout, rxbytes, received>>
  /\ UNCHANGED <<card, stored, sender>>

rzfilePosition ==
  /\ rpc = "rz_pos" /\ rpc' = "rz_hdr"
  /\ Replies(Header("ZRPOS", rxbytes))
  /\ UNCHANGED <<toRx, faults, n, fout, rxbytes, card, stored, received, sender>>

closeit == fout' = "closed"

(* Defective variant: data and ends are taken wherever they belong.        *)
Anywhere(pos) == TRUE

(* Data or an end of file from another place is from before the last ZRPOS.*)
InPlace(pos) == pos = rxbytes

rzfileHeader ==
  /\ rpc = "rz_hdr"
  /\ \E r \in {zgethdr(toRx), Late(toRx)} :
       /\ RzReads(r, zgethdr(toRx))
       /\ CASE r.c \in {"ZNAK", "TIMEOUT"} -> Forgive("rz_skip")
            [] r.c = "ZFILE" -> Stay("rz_skip")
            [] r.c = "ZEOF" ->
                 IF ~InPlace(r.pos) THEN Stay("rz_hdr")
                 ELSE closeit /\ rpc' = "tryz" /\ n' = TryzTries /\ UNCHANGED <<toTx, rxbytes, received>>
            [] r.c = "ERROR" -> Forgive("rz_pos")
            [] r.c = "ZDATA" -> IF InPlace(r.pos) THEN Stay("rz_data") ELSE Forgive("rz_pos")
            [] OTHER -> fubar
  /\ UNCHANGED <<card, stored, sender>>

rzfileSkip ==
  /\ rpc = "rz_skip"
  /\ \E r \in {zrdata(toRx), Late(toRx)} : RzReads(r, zrdata(toRx))
  /\ Stay("rz_pos")
  /\ UNCHANGED <<card, stored, sender>>

(* A good subpacket is appended to the file; the errors in a row start     *)
(* again from none.                                                        *)
putsec(units) ==
  /\ stored' = [stored EXCEPT ![fout] = @ \o units]
  /\ rxbytes' = rxbytes + Len(units)

rzfileData ==
  /\ rpc = "rz_data"
  /\ \E r \in {zrdata(toRx), Late(toRx)} :
       /\ RzReads(r, zrdata(toRx))
       /\ IF r.c \in Ends
            THEN /\ putsec(r.units) /\ n' = RzTries
                 /\ IF r.c = "ZCRCW" THEN Replies(Header("ZACK", rxbytes')) ELSE UNCHANGED toTx
                 /\ rpc' = IF r.c = "ZCRCG" THEN "rz_data" ELSE "rz_hdr"
                 /\ UNCHANGED <<fout, received>>
            ELSE /\ IF r.c = "ZCAN" THEN fubar ELSE Forgive("rz_pos")
                 /\ UNCHANGED stored
  /\ UNCHANGED <<card, sender>>

(* The end of the session: the receiver drops what has arrived, says ZFIN  *)
(* and waits for "OO", three times at most.                                *)
ackbibi ==
  /\ rpc = "bibi"
  /\ \E k \in 0..Len(toRx) : toRx' = After(toRx, k)
  /\ Replies(Header("ZFIN", 0)) /\ rpc' = "bibi_ack" /\ n' = n - 1
  /\ UNCHANGED <<faults, fout, rxbytes, card, stored, received, sender>>

ackbibiAnswer ==
  /\ rpc = "bibi_ack"
  /\ LET reading == IF toRx = <<>> THEN Silence ELSE [c |-> toRx[1].kind, rest |-> Tail(toRx)]
     IN \E r \in {reading, Late(toRx)} :
          /\ RzReads(r, reading)
          /\ IF r.c = "over" \/ n = 0 THEN Give("OK") ELSE rpc' = "bibi" /\ UNCHANGED <<fout, received>>
  /\ UNCHANGED <<toTx, n, rxbytes, card, stored, sender>>

-----------------------------------------------------------------------------
(* The line loses a header, or garbles a header or a subpacket; a garbled  *)
(* subpacket may have lost its end.  No token is added or overtaken, and   *)
(* no subpacket vanishes without a trace.                                  *)
Garbled(tok) ==
  CASE tok.kind = "header" -> {<<>>, <<[tok EXCEPT !.good = FALSE]>>}
    [] tok.kind = "data" -> {<<[tok EXCEPT !.good = FALSE, !.end = e]>> : e \in {tok.end, "none"}}
    [] OTHER -> {<<>>}

Noise(ch) ==
  UNION {{SubSeq(ch, 1, i - 1) \o g \o After(ch, i) : g \in Garbled(ch[i])} : i \in DOMAIN ch}

Garble ==
  /\ faults > 0 /\ faults' = faults - 1
  /\ \/ toRx' \in Noise(toRx) /\ UNCHANGED toTx
     \/ toTx' \in Noise(toTx) /\ UNCHANGED toRx
  /\ UNCHANGED <<sender, receiver>>

SzNext ==
  \/ zsendfile \/ zsendfileAnswer \/ zsendfileDrain
  \/ zsendfdata \/ zsendfdataNext \/ ReadCheck \/ zsendfdataEof \/ getinsync
  \/ saybibi \/ saybibiAnswer

RzNext ==
  \/ tryz \/ tryzHeader \/ tryzName
  \/ rzfilePosition \/ rzfileHeader \/ rzfileSkip \/ rzfileData
  \/ ackbibi \/ ackbibiAnswer

Next == SzNext \/ RzNext \/ Garble

(* Both programs run; nothing is assumed of the line.                      *)
Spec == Init /\ [][Next]_vars /\ WF_vars(SzNext) /\ WF_vars(RzNext)

-----------------------------------------------------------------------------
(* Everything has its type: the places, the positions inside the files,    *)
(* the tries and what is on the line (zmodem_sz.cpp, zmodem_rz.cpp).       *)
TypeOK ==
  /\ spc \in SzListens \cup {"file", "zdata", "stream", "check", "peek", "eof", "fin", "end"}
  /\ rpc \in {"tryz", "tryz_hdr", "tryz_name", "rz_pos", "rz_hdr", "rz_skip", "rz_data",
              "bibi", "bibi_ack", "end", "xmodem"}
  /\ file \in DOMAIN Files /\ Eofseen \in BOOLEAN
  /\ Txpos \in Nat /\ Lastsync \in Nat \cup {-1}
  /\ spc \in {"zdata", "stream", "wait", "check", "check_sync", "peek", "peek_sync", "eof", "eof_ack"}
       => Txpos <= size /\ Lastsync <= size
  /\ n \in 0 .. Max({TryzTries, RzTries, 3}) /\ faults \in 0..Faults
  /\ (rpc \in {"rz_pos", "rz_hdr", "rz_skip", "rz_data"}) = (fout \in Names)
  /\ fout \in Names => rxbytes = Len(stored[fout])
  /\ \A f \in Names : sent[f] \in {"none", "OK", "ERROR"}
  /\ \A i \in DOMAIN toTx : toTx[i].kind \in {"header", "can"}

(* The transfer does what sending files promises: the stored file grows by *)
(* what comes next in the file whatever is lost, repeated or stale on the  *)
(* line; wcs counts a file as sent only when it is all there; and          *)
(* wcreceive reports success only when it has no file in part.             *)
Transfer == INSTANCE FileTransfer WITH Name <- Names, before <- card.held
Refines == Transfer!Spec

(* Both programs come to an end whatever the line does, except that SZ may *)
(* offer for ever a file the other card cannot open: the answer to skip it *)
(* is never sent (zmodem_rz.cpp tryz, zmodem_sz.cpp zsendfile).            *)
Ended == SzGone /\ RzGone

Termination == <>Ended \/ <>[](spc \in {"file", "file_ack", "drain"} /\ Files[file] \in card.locked)
=============================================================================
