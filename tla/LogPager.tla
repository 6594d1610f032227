------------------------------ MODULE LogPager ------------------------------
(***************************************************************************)
(* Browsing the event logs page by page (log.c): the LCD task turns pages  *)
(* by keys, the web server by requests, and both move one read cursor per  *)
(* type of log, while watch_task writes records and either clears a log.   *)
(*                                                                         *)
(* A page is turned in one step: what a write in the middle of one would   *)
(* disturb, a write right after it disturbs as well.  Records are numbered *)
(* in the order of their writing; the ring itself is EventLog's.           *)
(***************************************************************************)
EXTENDS Integers, Sequences

CONSTANTS
  Type,       (* types of log: open, intrusion of each zone, tamper          *)
  TOTAL,      (* EACH_TYPE_LOG_TOTAL, records in a ring: 300                 *)
  WEB_PAGE,   (* EACH_WEB_PAGE_LOG_NUM: 10                                   *)
  LCD_PAGE,   (* EACH_LCD_PAGE_LOG_NUM: 3                                    *)
  Records,    (* BOUND: records written to each log before it is cleared     *)
  Stray       (* BOUND: records a cursor may stray from its ring             *)

ASSUME PagerAssumption ==
  /\ {TOTAL, WEB_PAGE, LCD_PAGE, Stray} \subseteq Nat \ {0}
  /\ Records \in [Type -> Nat]
  /\ TOTAL % WEB_PAGE = 0 /\ TOTAL % LCD_PAGE = 0
  /\ WEB_PAGE < TOTAL /\ LCD_PAGE < TOTAL
  /\ "none" \notin Type

Reader == {"web", "lcd"}
PAGE == [r \in Reader |-> IF r = "web" THEN WEB_PAGE ELSE LCD_PAGE]

VARIABLES
  written,        (* records in each log since it was cleared                *)
  crtReadAddrVal, (* the read cursor of each log, as a slot of its ring; the *)
                  (* slots outside 0 .. TOTAL - 1 are other data             *)
  flags,          (* webLogPageFlag, LCDLogPageFlag: of {"HEAD", "END"}      *)
  lastNum,        (* lastWebPageLogNum, lastLCDPageLogNum                    *)
  dir,            (* lastWebPageReadDir, lastLCDPageReadDir                  *)
  page,           (* crtWebPageLogData, crtLCDPageLogData: newest first      *)
  type,           (* the log each reader looks at                            *)
  buttons,        (* the flags the browser was last sent                     *)
  top,            (* HISTORY: newest record of the page the reader is on     *)
  kept            (* HISTORY: nothing has disturbed the reader since it      *)
                  (* opened the log                                          *)

vars == <<written, crtReadAddrVal, flags, lastNum, dir, page, type, buttons, top, kept>>

Other == -1       \* what is read outside the ring: never an empty string

TypeOK ==
  /\ \A t \in Type : written[t] \in 0 .. Records[t]
  /\ crtReadAddrVal \in [Type -> Int]
  /\ flags \in [Reader -> SUBSET {"HEAD", "END"}]
  /\ \A r \in Reader : lastNum[r] \in 0 .. PAGE[r] /\ Len(page[r]) <= PAGE[r]
  /\ dir \in [Reader -> {"UP", "DOWN"}]
  /\ type \in [Reader -> Type \cup {"none"}]
  /\ buttons \subseteq {"HEAD", "END"}
  /\ top \in [Reader -> Int]
  /\ kept \in [Reader -> BOOLEAN]

Init ==
  /\ written = [t \in Type |-> 0]
  /\ crtReadAddrVal = [t \in Type |-> 0]
  /\ flags = [r \in Reader |-> {"HEAD"}]
  /\ lastNum = [r \in Reader |-> 0]
  /\ dir = [r \in Reader |-> "DOWN"]
  /\ page = [r \in Reader |-> <<>>]
  /\ type = [r \in Reader |-> "none"]
  /\ buttons = {}
  /\ top = [r \in Reader |-> 0]
  /\ kept = [r \in Reader |-> FALSE]

-----------------------------------------------------------------------------
(* The ring                                                                *)

isLogFull(t) == written[t] >= TOTAL
Next_W(t) == written[t] % TOTAL                          \* nextWriteAddrVal
Oldest(t) == IF isLogFull(t) THEN written[t] - TOTAL + 1 ELSE 1

\* The record in slot c, 0 for a blank.
Slot(t, c) ==
  IF c \notin 0 .. TOTAL - 1 THEN Other
  ELSE IF c < Next_W(t) THEN written[t] - Next_W(t) + c + 1
  ELSE IF isLogFull(t) THEN written[t] - Next_W(t) - TOTAL + c + 1
  ELSE 0

isPageOverOne(r, t) == isLogFull(t) \/ PAGE[r] < Next_W(t)

\* updateLogPageFlag marks the pages of both readers, whatever they look at.
Marked(f, t, flag) ==
  [r \in Reader |-> IF isPageOverOne(r, t) THEN {flag} ELSE f[r] \cup {flag}]

-----------------------------------------------------------------------------
(* One record read; s holds the cursor, the flags, what was read, and if   *)
(* the last read was empty.                                                *)

\* Mutant: the base of the ring not noticed.
ReadNextLog_Endless(t, s) ==
  [s EXCEPT !.cur = @ - 1, !.read = Append(@, Slot(t, s.cur - 1)),
            !.flags = IF s.cur = 1 THEN Marked(@, t, "END") ELSE @]

ReadNextLog(t, s) ==
  LET c == IF s.cur = 0 THEN TOTAL - 1 ELSE s.cur - 1
      last == IF isLogFull(t) THEN Next_W(t) ELSE 0
  IN  IF s.cur = 0 /\ ~isLogFull(t)
      THEN [s EXCEPT !.flags = Marked(@, t, "END"), !.empty = TRUE]
      ELSE [s EXCEPT !.cur = c, !.read = Append(@, Slot(t, c)),
                     !.flags = IF c = last THEN Marked(@, t, "END") ELSE @]

\* Mutant: the newest record taken for granted.
ReadPreviousLog_Unmarked(t, s) ==
  LET c == IF s.cur = TOTAL - 1 THEN 0 ELSE s.cur + 1
  IN  [s EXCEPT !.cur = c, !.read = <<Slot(t, c)>> \o @]

ReadPreviousLog(t, s) ==
  LET c == IF s.cur = TOTAL - 1 THEN 0 ELSE s.cur + 1
  IN  IF s.cur # TOTAL - 1 /\ s.cur = Next_W(t) - 1
      THEN [s EXCEPT !.cur = Next_W(t), !.flags = Marked(@, t, "HEAD"), !.empty = TRUE]
      ELSE [s EXCEPT !.cur = c, !.read = <<Slot(t, c)>> \o @,
                     !.flags = IF c = Next_W(t) - 1 THEN Marked(@, t, "HEAD") ELSE @]

Start(cur, f) == [cur |-> cur, flags |-> f, read |-> <<>>, empty |-> FALSE]

\* The loops of the page readers: up to a page of records, until one is empty.
ReadPage(r, t, way, start) ==
  LET after[i \in 0 .. PAGE[r]] ==
        IF i = 0 THEN start
        ELSE IF after[i - 1].empty THEN after[i - 1]
        ELSE IF way = "DOWN" THEN ReadNextLog(t, after[i - 1])
        ELSE ReadPreviousLog(t, after[i - 1])
  IN  after[PAGE[r]]

-----------------------------------------------------------------------------
(* Pages                                                                   *)

\* Mutant: the count of a full page runs one past it.
Shown_OnePast(r, t, s, n) ==
  /\ crtReadAddrVal' = [crtReadAddrVal EXCEPT ![t] = s.cur]
  /\ flags' = s.flags
  /\ page' = [page EXCEPT ![r] = s.read]
  /\ lastNum' = [lastNum EXCEPT ![r] = n + 1]
  /\ buttons' = IF r = "web" THEN s.flags["web"] ELSE buttons
  /\ UNCHANGED written

\* What reader r leaves behind when it has read s, n records by its count.  The
\* answer to a request carries the page and the flags to the browser.
Shown(r, t, s, n) ==
  /\ crtReadAddrVal' = [crtReadAddrVal EXCEPT ![t] = s.cur]
  /\ flags' = s.flags
  /\ page' = [page EXCEPT ![r] = s.read]
  /\ lastNum' = [lastNum EXCEPT ![r] = n]
  /\ buttons' = IF r = "web" THEN s.flags["web"] ELSE buttons
  /\ UNCHANGED written

\* Reader r is on the page whose newest record is n; nobody else still is on the
\* page it had.
Alone(r, n, undisturbed) ==
  /\ kept' = [x \in Reader |-> x = r /\ undisturbed]
  /\ top' = [x \in Reader |-> IF x = r /\ undisturbed THEN n ELSE 0]

\* ReadWebFirstPageLog, ReadLCDFirstPageLog: an empty log leaves the LCD's count.
First(r, t, f) ==
  LET s == ReadPage(r, t, "DOWN", Start(Next_W(t), [f EXCEPT ![r] = {"HEAD"}]))
      n == Len(s.read)
  IN  /\ Shown(r, t, s, IF r = "lcd" /\ n = 0 THEN lastNum[r] ELSE n)
      /\ dir' = [dir EXCEPT ![r] = "DOWN"]
      /\ Alone(r, written[t], TRUE)

\* The LCD menu enters the screen of a log; the web page selects one (LOGTYPE),
\* or is loaded again after a write or a clear has emptied its page (SSI tag 12).
Open(r, t) ==
  /\ type' = [type EXCEPT ![r] = t]
  /\ First(r, t, flags)

\* The page reloaded as it is: the flags may be another reader's by now.
Reload ==
  /\ page["web"] # <<>>
  /\ buttons' = flags["web"]
  /\ UNCHANGED <<written, crtReadAddrVal, flags, lastNum, dir, page, type, top, kept>>

\* Mutant: the cursor moved over the whole page.
Back_Whole(r, d) == IF dir[r] = d THEN 0 ELSE lastNum[r]

\* How far the cursor is moved before the page is read: over the page it is on,
\* if that was read the other way.
Back(r, d) == IF dir[r] = d THEN 0 ELSE lastNum[r] - 1

\* In a ring that was filled, a page may lie on both sides of its seam: the
\* cursor is not wrapped when it is moved back over that page.
OverSeam(r, t, d) ==
  LET c == IF d = "DOWN" THEN crtReadAddrVal[t] - Back(r, d)
           ELSE crtReadAddrVal[t] + Back(r, d)
  IN  c \notin 0 .. TOTAL - 1

Near(t) == crtReadAddrVal[t] \in -Stray .. TOTAL + Stray

\* A page turned to is shown; an empty one makes the web server read the first
\* page instead.
Turned(r, t, s, d, n, undisturbed) ==
  /\ Near(t)
  /\ UNCHANGED type
  /\ IF r = "web" /\ s.read = <<>> THEN First(r, t, s.flags)
     ELSE /\ Shown(r, t, s, Len(s.read))
          /\ dir' = [dir EXCEPT ![r] = d]
          /\ Alone(r, n, undisturbed)

Clean(r, t, d) == kept[r] /\ ~OverSeam(r, t, d) /\ isPageOverOne(r, t)

\* ReadWebNextPageLog, ReadLCDNextPageLog
NextPage(r, t) ==
  Turned(r, t,
         ReadPage(r, t, "DOWN",
                  Start(crtReadAddrVal[t] - Back(r, "DOWN"), [flags EXCEPT ![r] = {}])),
         "DOWN", top[r] - PAGE[r], Clean(r, t, "DOWN"))

\* The newest record of a full ring is not recognised in its last slot: the page
\* before the first one can then be asked for.
PastNewest(r, t) == top[r] = written[t]

\* ReadWebPreviousPageLog, ReadLCDPreviousPageLog
PreviousPage(r, t) ==
  Turned(r, t,
         ReadPage(r, t, "UP",
                  Start(crtReadAddrVal[t] + Back(r, "UP"), [flags EXCEPT ![r] = {}])),
         "UP", top[r] + PAGE[r], Clean(r, t, "UP") /\ ~PastNewest(r, t))

\* log.shtml disables the button of a flag it was sent; the keys of the LCD look
\* for the one flag alone.
Turns(r, flag) ==
  IF r = "web" THEN flag \notin buttons ELSE flags[r] # {flag}

Down(r) == type[r] # "none" /\ Turns(r, "END") /\ NextPage(r, type[r])

Up(r) == type[r] # "none" /\ Turns(r, "HEAD") /\ PreviousPage(r, type[r])

-----------------------------------------------------------------------------
(* Writes and clears                                                       *)

Emptied(R) ==
  /\ page' = [r \in Reader |-> IF r \in R THEN <<>> ELSE page[r]]
  /\ dir' = [r \in Reader |-> "DOWN"]
  /\ kept' = [r \in Reader |-> FALSE]
  /\ top' = [r \in Reader |-> 0]
  /\ UNCHANGED <<crtReadAddrVal, flags, lastNum, buttons>>

WriteLog(t) ==
  /\ written[t] < Records[t]
  /\ written' = [written EXCEPT ![t] = @ + 1]
  /\ Emptied(Reader)
  /\ UNCHANGED type

\* FastClearLog, by the web page for the log it shows, or from a screen of the
\* LCD that shows none.
Clear(t, r) ==
  /\ written' = [written EXCEPT ![t] = 0]
  /\ Emptied({"web"})
  /\ r = "web" => type["web"] = t
  /\ type' = IF r = "lcd" THEN [type EXCEPT !["lcd"] = "none"] ELSE type

Next ==
  \/ \E r \in Reader : \E t \in Type : Open(r, t)
  \/ Reload
  \/ \E r \in Reader : Down(r)
  \/ \E r \in Reader : Up(r)
  \/ \E t \in Type : WriteLog(t)
  \/ \E t \in Type : \E r \in Reader : Clear(t, r)

Spec == Init /\ [][Next]_vars

-----------------------------------------------------------------------------
(* Properties                                                              *)

\* The records a page should show, from its newest down.
Expected(r) ==
  LET n == top[r] - Oldest(type[r]) + 1
  IN  [i \in 1 .. (IF n < PAGE[r] THEN n ELSE PAGE[r]) |-> top[r] - i + 1]

\* log.c:78, "read the first log": whatever happened before, the first page
\* holds the newest records, and for a reader alone in a log that is longer than
\* a page every further page, up or down, is the one next to it: none of its
\* records is shown twice or skipped.
PagesInOrder == \A r \in Reader : kept[r] => page[r] = Expected(r)

\* log.c:25, "FirstPage, LastPage": for a reader alone, the flags that decide
\* which way it may go tell the two ends of the log; only the newest record in
\* the last slot of the ring goes unrecognised.
FlagsTellEnds ==
  \A r \in Reader :
    kept[r] =>
      LET t == type[r] IN
      /\ "END" \in flags[r] <=> top[r] - PAGE[r] < Oldest(t)
      /\ "HEAD" \in flags[r] => top[r] = written[t]
      /\ top[r] = written[t] => "HEAD" \in flags[r] \/ (isLogFull(t) /\ Next_W(t) = 0)

Inside(t) == crtReadAddrVal[t] \in 0 .. TOTAL - 1

\* The cursor of a log leaves its ring, into other data of the EEPROM, only when
\* it is moved back over a page on the seam of a full ring, when the LCD turns
\* the only page of a log, or when somebody else has moved the cursor, the flags
\* or the direction since the reader opened the log.
StraysOnlyAtSeam ==
  [][\A t \in Type : Inside(t) /\ ~Inside(t)' =>
       \E r \in Reader :
         /\ type[r] = t /\ (Down(r) \/ Up(r))
         /\ isLogFull(t) \/ ~isPageOverOne(r, t) \/ ~kept[r]]_vars
=============================================================================
