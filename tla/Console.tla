------------------------------ MODULE Console ------------------------------
(***************************************************************************)
(* The console: keyboard and serial input, the ring buffer between the     *)
(* drivers and their readers, the screen, readline() and the commands of   *)
(* the kernel monitor, and the output of programs (kern/console.c,         *)
(* lib/readline.c, kern/monitor.c, lib/printf.c).                          *)
(*                                                                         *)
(* Bytes arrive at any time, also while the drivers look for them one by   *)
(* one.  Everything else here but the buffering of cprintf() in a program  *)
(* is a step of a CPU in the kernel, which holds the kernel lock: Machine  *)
(* says when there is one.                                                 *)
(***************************************************************************)
EXTENDS Integers, Sequences, FiniteSets, SequencesExt

CONSTANTS CONSBUFSIZE,  \* characters of the input ring
          DEVBUF,       \* bound: bytes a device holds
          CRT_COLS, CRT_ROWS,
          BUFLEN,       \* size of the line buffer of readline()
          MAXARGS,      \* size of argv[]
          PRINTBUF,     \* size of the buffer of cprintf() in a program
          Prog          \* programs that print

ASSUME ConsoleAssumption ==
  /\ CONSBUFSIZE \in Nat \ {0, 1} /\ DEVBUF \in Nat \ {0, 1}
  /\ CRT_COLS \in Nat \ {0} /\ CRT_ROWS \in Nat \ {0, 1}
  /\ BUFLEN \in Nat \ {0} /\ MAXARGS \in Nat \ {0, 1} /\ PRINTBUF \in Nat \ {0, 1}
  /\ "kernel" \notin Prog

VARIABLES strokes,  \* bound: how many keys and characters may still be sent, and which
          held,     \* keys that are down
          wire,     \* bytes of a key that have not arrived
          kbd,      \* bytes in the keyboard controller
          serial,   \* characters in the serial port
          shift,    \* bits of the static variable of kbd_proc_data()
          poll,     \* the device that cons_getc() is looking at, "none" if it is not called
          cons,     \* the ring
          queue,    \* history: what has been put into it and not taken or lost
          crt,      \* the screen: the cells and crt_pos
          line,     \* buf[0 .. i-1] of readline()
          mode,     \* "user", "readline" in the monitor, or "command" on a line
          rest,     \* what runcmd() has not looked at
          argv,     \* the words of the last command
          print,    \* of each program: characters to print, and in the buffer
          cputs,    \* what sys_cputs() has not put out yet, and for whom
          log       \* history: whose characters went to the screen, one by one

input   == <<strokes, held, wire>>
devices == <<kbd, serial, shift, poll, cons, queue>>
reader  == <<line, mode, rest, argv>>
output  == <<print, cputs, crt, log>>
consoleVars == <<strokes, held, wire, kbd, serial, shift, poll, cons, queue, crt, line, mode, rest, argv,
                 print, cputs, log>>

(* The kernel is at nothing else.                                          *)
Free == poll = "none" /\ cputs.left = 0
-----------------------------------------------------------------------------
(* Keys and characters.  A key is its scan code and whether the keyboard   *)
(* sends 0xE0 before it.                                                   *)
Code == {"a", "space", "bs", "enter", "shift", "ctl", "caps"}
Key  == [code : Code, ext : BOOLEAN]
E0   == [code |-> "E0", up |-> FALSE]
Byte == [code : Code, up : BOOLEAN] \cup {E0}

NO   == "NO"                                   \* the character 0
Char == {"a", "A", "^A", " ", "BS", "LF", "CR", "DEL"}

shiftcode(code, ext) ==
  CASE code = "ctl" -> {"CTL"}
    [] code = "shift" /\ ~ext -> {"SHIFT"}
    [] OTHER -> {}
togglecode(code, ext) == IF code = "caps" /\ ~ext THEN {"CAPSLOCK"} ELSE {}

normalmap == [a |-> "a", space |-> " ", bs |-> "BS", enter |-> "LF"]
shiftmap  == [a |-> "A", space |-> " ", bs |-> "BS", enter |-> "LF"]
ctlmap    == [a |-> "^A", space |-> NO, bs |-> NO, enter |-> "CR"]

charcode(bits, code, ext) ==
  LET codemap == IF "CTL" \in bits THEN ctlmap ELSE IF "SHIFT" \in bits THEN shiftmap ELSE normalmap
  IN IF code \in DOMAIN codemap /\ (ext => code = "enter" /\ "CTL" \notin bits) THEN codemap[code] ELSE NO

OtherCase(c) == IF c = "a" THEN "A" ELSE IF c = "A" THEN "a" ELSE c

(* Mutant: the escape stays after the release of a key.                    *)
ReleasedEscaped(bits, code) ==
  [bits |-> bits \ shiftcode(code, "E0ESC" \in bits), char |-> NO]

(* kbd_proc_data() of one byte: the bits and the character.                *)
Released(bits, code) ==
  [bits |-> bits \ (shiftcode(code, "E0ESC" \in bits) \cup {"E0ESC"}), char |-> NO]

Pressed(bits, code) ==
  LET ext  == "E0ESC" \in bits
      down == (bits \ {"E0ESC"}) \cup shiftcode(code, ext)
      now  == (down \ togglecode(code, ext)) \cup (togglecode(code, ext) \ down)
      c    == charcode(now, code, ext)
  IN [bits |-> now, char |-> IF "CAPSLOCK" \in now THEN OtherCase(c) ELSE c]

kbd_proc_data(bits, byte) ==
  IF byte = E0 THEN [bits |-> bits \cup {"E0ESC"}, char |-> NO]
  ELSE IF byte.up THEN Released(bits, byte.code)
  ELSE Pressed(bits, byte.code)
-----------------------------------------------------------------------------
(* The ring.                                                               *)
Wrap(pos) == IF pos = CONSBUFSIZE THEN 0 ELSE pos

(* Mutant: keys without a character are put into the ring.                 *)
StashAll(ring, c) == [ring EXCEPT !.buf[ring.wpos] = c, !.wpos = Wrap(@ + 1)]

(* cons_intr() of a character.                                             *)
Stash(ring, c) ==
  IF c = NO THEN ring
  ELSE [ring EXCEPT !.buf[ring.wpos] = c, !.wpos = Wrap(@ + 1)]

(* What the ring makes of it: a character that fills it loses them all.    *)
Enqueue(q, c) ==
  IF c = NO THEN q ELSE IF Len(q) + 1 = CONSBUFSIZE THEN <<>> ELSE Append(q, c)

(* cons_getc(): first the serial port and then the keyboard is read until  *)
(* it has nothing left, ...                                                *)
StartPoll ==
  /\ mode \in {"user", "readline"} /\ Free
  /\ poll' = "serial"
  /\ UNCHANGED <<kbd, serial, shift, cons, queue>> /\ UNCHANGED input /\ UNCHANGED reader /\ UNCHANGED output

Stashes(c) == cons' = Stash(cons, c) /\ queue' = Enqueue(queue, c)

SerialIntr ==
  /\ poll = "serial" /\ serial # <<>>
  /\ Stashes(Head(serial)) /\ serial' = Tail(serial)
  /\ UNCHANGED <<kbd, shift, poll>> /\ UNCHANGED input /\ UNCHANGED reader /\ UNCHANGED output

SerialDone ==
  /\ poll = "serial" /\ serial = <<>>
  /\ poll' = "keyboard"
  /\ UNCHANGED <<kbd, serial, shift, cons, queue>> /\ UNCHANGED input /\ UNCHANGED reader /\ UNCHANGED output

KbdIntr ==
  /\ poll = "keyboard" /\ kbd # <<>>
  /\ kbd' = Tail(kbd)
  /\ LET r == kbd_proc_data(shift, Head(kbd)) IN shift' = r.bits /\ Stashes(r.char)
  /\ UNCHANGED <<serial, poll>> /\ UNCHANGED input /\ UNCHANGED reader /\ UNCHANGED output

(* ... then the reader gets one character, or NO.                          *)
ConsGetc(c) ==
  /\ poll = "keyboard" /\ kbd = <<>>
  /\ poll' = "none"
  /\ \/ cons.rpos = cons.wpos /\ c = NO /\ UNCHANGED <<cons, queue>>
     \/ /\ cons.rpos # cons.wpos /\ c = cons.buf[cons.rpos]
        /\ cons' = [cons EXCEPT !.rpos = Wrap(@ + 1)] /\ queue' = Tail(queue)
  /\ UNCHANGED <<kbd, serial, shift>>
-----------------------------------------------------------------------------
(* The screen.                                                             *)
CRT_SIZE == CRT_ROWS * CRT_COLS
Blank    == " "

Scrolled(s) ==
  IF s.pos < CRT_SIZE THEN s
  ELSE [cells |-> [i \in 0 .. CRT_SIZE - 1 |->
                     IF i < CRT_SIZE - CRT_COLS THEN s.cells[i + CRT_COLS] ELSE Blank],
        pos   |-> s.pos - CRT_COLS]

(* Mutant: the cursor goes back over what it leaves.                       *)
RubOutNot(s) == IF s.pos > 0 THEN [s EXCEPT !.pos = @ - 1] ELSE s

RubOut(s) == IF s.pos > 0 THEN [cells |-> [s.cells EXCEPT ![s.pos - 1] = Blank], pos |-> s.pos - 1] ELSE s

cga_putc(s, c) ==
  Scrolled(CASE c = "BS" -> RubOut(s)
             [] c = "LF" -> [s EXCEPT !.pos = @ + CRT_COLS - (@ % CRT_COLS)]
             [] OTHER    -> [cells |-> [s.cells EXCEPT ![s.pos] = c], pos |-> s.pos + 1])

(* cputchar(), for whom.                                                   *)
Put(who, c) == crt' = cga_putc(crt, c) /\ log' = Append(log, who)
-----------------------------------------------------------------------------
(* What arrives.                                                           *)
Codes(key, up) == (IF key.ext THEN <<E0>> ELSE <<>>) \o <<[code |-> key.code, up |-> up]>>

Sends(bytes) ==
  /\ wire = <<>> /\ strokes.left > 0 /\ Len(kbd) < DEVBUF
  /\ strokes' = [strokes EXCEPT !.left = @ - 1]
  /\ kbd' = Append(kbd, Head(bytes))
  /\ wire' = Tail(bytes)
  /\ UNCHANGED <<serial, shift, poll, cons, queue>> /\ UNCHANGED reader /\ UNCHANGED output

(* A key goes down, or repeats.                                            *)
KeyDown(key) ==
  /\ key \in strokes.keys /\ Sends(Codes(key, FALSE))
  /\ held' = held \cup {key}

KeyUp(key) ==
  /\ key \in held \cap strokes.ups /\ Sends(Codes(key, TRUE))
  /\ held' = held \ {key}

(* The second byte of an extended key comes later.                         *)
Arrive ==
  /\ wire # <<>> /\ Len(kbd) < DEVBUF
  /\ kbd' = Append(kbd, Head(wire))
  /\ wire' = Tail(wire)
  /\ UNCHANGED <<strokes, held, serial, shift, poll, cons, queue>> /\ UNCHANGED reader /\ UNCHANGED output

SerialLine(c) ==
  /\ c \in strokes.chars /\ strokes.left > 0 /\ serial = <<>>
  /\ strokes' = [strokes EXCEPT !.left = @ - 1]
  /\ serial' = <<c>>
  /\ UNCHANGED <<held, wire, kbd, shift, poll, cons, queue>> /\ UNCHANGED reader /\ UNCHANGED output
-----------------------------------------------------------------------------
(* readline() and the monitor.                                             *)
Prompt == "K"

Monitor ==
  /\ mode = "user" /\ Free
  /\ mode' = "readline" /\ line' = <<>>
  /\ Put("kernel", Prompt)
  /\ UNCHANGED <<rest, argv, print, cputs>> /\ UNCHANGED input /\ UNCHANGED devices

Reads(c) == mode = "readline" /\ ConsGetc(c) /\ UNCHANGED input /\ UNCHANGED <<print, cputs>>

IsErase(c) == c \in {"BS", "DEL"} /\ line # <<>>
IsText(c)  == c \in {"a", "A", " ", "DEL"} /\ ~IsErase(c)       \* c >= ' '
IsEnter(c) == c \in {"LF", "CR"}

ReadErase ==
  /\ \E c \in Char : IsErase(c) /\ Reads(c)
  /\ line' = Front(line)
  /\ Put("kernel", "BS")
  /\ UNCHANGED <<mode, rest, argv>>

(* Mutant: a full buffer is not noticed in time.                           *)
FitsLate == Len(line) < BUFLEN

Fits == Len(line) < BUFLEN - 1

ReadText ==
  \E c \in Char :
    /\ IsText(c) /\ Fits /\ Reads(c)
    /\ line' = Append(line, c)
    /\ Put("kernel", c)
    /\ UNCHANGED <<mode, rest, argv>>

(* No character, a control character, or one too many.                     *)
ReadIgnored ==
  /\ \E c \in Char \cup {NO} : /\ ~IsErase(c) /\ ~(IsText(c) /\ Fits) /\ ~IsEnter(c)
                               /\ Reads(c)
  /\ UNCHANGED <<crt, log>> /\ UNCHANGED reader

ReadEnter ==
  /\ \E c \in Char : IsEnter(c) /\ Reads(c)
  /\ mode' = "command" /\ rest' = line /\ argv' = <<>>
  /\ Put("kernel", "LF")
  /\ UNCHANGED line

SkipBlanks(s) == LET texts == {i \in DOMAIN s : s[i] # " "}
                 IN IF texts = {} THEN <<>> ELSE SubSeq(s, Min(texts), Len(s))

(* Mutant: the white space after a word is not cleared.                    *)
WordEndLate(s) == LET ends == {i \in DOMAIN s : s[i] = " "}
                  IN IF ends = {} THEN Len(s) ELSE Min(ends)

WordEnd(s) == LET ends == {i \in DOMAIN s : s[i] = " "}
              IN IF ends = {} THEN Len(s) ELSE Min(ends) - 1

(* The loop of runcmd(): the next word, ...                                *)
NextWord ==
  /\ mode = "command" /\ SkipBlanks(rest) # <<>> /\ Len(argv) < MAXARGS - 1
  /\ LET words == SkipBlanks(rest)
     IN /\ argv' = Append(argv, SubSeq(words, 1, WordEnd(words)))
        /\ rest' = SubSeq(words, WordEnd(words) + 1, Len(words))
  /\ UNCHANGED <<line, mode>> /\ UNCHANGED input /\ UNCHANGED devices /\ UNCHANGED output

(* ... or the end of them.  No command stops the monitor, so the next      *)
(* prompt follows.                                                         *)
Prompts ==
  /\ mode' = "readline" /\ line' = <<>>
  /\ Put("kernel", Prompt)
  /\ UNCHANGED <<rest, print, cputs>> /\ UNCHANGED input /\ UNCHANGED devices

RunCommand ==
  /\ mode = "command" /\ SkipBlanks(rest) = <<>>
  /\ Prompts /\ UNCHANGED argv

TooMany == <<"too many">>
TooManyArguments ==
  /\ mode = "command" /\ SkipBlanks(rest) # <<>> /\ Len(argv) = MAXARGS - 1
  /\ Prompts /\ argv' = Append(argv, TooMany)
-----------------------------------------------------------------------------
(* Programs.                                                               *)
SysCgetc ==
  /\ mode = "user"
  /\ \E c \in Char \cup {NO} : ConsGetc(c)
  /\ UNCHANGED input /\ UNCHANGED reader /\ UNCHANGED output

(* putch() of a character that does not fill the buffer, by a program that *)
(* is not in sys_cputs().                                                  *)
Putch(p) ==
  /\ print[p].left > 0 /\ print[p].idx < PRINTBUF - 1
  /\ cputs.left > 0 => cputs.who # p
  /\ print' = [print EXCEPT ![p] = [left |-> @.left - 1, idx |-> @.idx + 1]]
  /\ UNCHANGED <<cputs, crt, log>> /\ UNCHANGED input /\ UNCHANGED devices /\ UNCHANGED reader

(* Mutant: every character goes out at once.                               *)
FlushAlways(p) == print[p].idx > 0

(* The buffer is full, or it is the end of cprintf().                      *)
Flush(p) == print[p].idx = PRINTBUF - 1 \/ (print[p].idx > 0 /\ print[p].left = 0)

SysCputs(p) ==
  /\ mode = "user" /\ Free /\ Flush(p)
  /\ cputs' = [who |-> p, left |-> print[p].idx]
  /\ print' = [print EXCEPT ![p].idx = 0]
  /\ UNCHANGED <<crt, log>> /\ UNCHANGED input /\ UNCHANGED devices /\ UNCHANGED reader

(* The kernel prints the string character by character.                    *)
Cputchar ==
  /\ cputs.left > 0
  /\ Put(cputs.who, "a")
  /\ cputs' = [cputs EXCEPT !.left = @ - 1]
  /\ UNCHANGED print /\ UNCHANGED input /\ UNCHANGED devices /\ UNCHANGED reader
-----------------------------------------------------------------------------
ConsoleInit(s, lengths) ==
  /\ strokes = s
  /\ held = {} /\ wire = <<>> /\ kbd = <<>> /\ serial = <<>>
  /\ shift = {} /\ poll = "none"
  /\ cons = [buf |-> [i \in 0 .. CONSBUFSIZE - 1 |-> NO], rpos |-> 0, wpos |-> 0]
  /\ queue = <<>>
  /\ crt = [cells |-> [i \in 0 .. CRT_SIZE - 1 |-> Blank], pos |-> 0]
  /\ line = <<>> /\ mode = "user" /\ rest = <<>> /\ argv = <<>>
  /\ print = [p \in Prog |-> [left |-> lengths[p], idx |-> 0]]
  /\ cputs = [who |-> "kernel", left |-> 0]
  /\ log = <<>>

Arrives ==
  \/ \E key \in Key : KeyDown(key) \/ KeyUp(key)
  \/ Arrive
  \/ \E c \in Char : SerialLine(c)

InKernel ==
  \/ StartPoll \/ SerialIntr \/ SerialDone \/ KbdIntr
  \/ Monitor \/ ReadErase \/ ReadText \/ ReadIgnored \/ ReadEnter
  \/ NextWord \/ RunCommand \/ TooManyArguments
  \/ SysCgetc
  \/ \E p \in Prog : SysCputs(p)
  \/ Cputchar
-----------------------------------------------------------------------------
(* Positions inside the ring, the screen and the buffers: in particular    *)
(* readline() leaves room for the zero at the end of its line.             *)
ConsoleTypeOK ==
  /\ held \subseteq Key /\ wire \in Seq(Byte) /\ kbd \in Seq(Byte) /\ serial \in Seq(Char)
  /\ Len(kbd) <= DEVBUF
  /\ shift \subseteq {"SHIFT", "CTL", "CAPSLOCK", "E0ESC"}
  /\ poll \in {"none", "serial", "keyboard"}
  /\ cons \in [buf : [0 .. CONSBUFSIZE - 1 -> Char \cup {NO}],
               rpos : 0 .. CONSBUFSIZE - 1, wpos : 0 .. CONSBUFSIZE - 1]
  /\ queue \in Seq(Char)
  /\ crt.pos \in 0 .. CRT_SIZE - 1 /\ DOMAIN crt.cells = 0 .. CRT_SIZE - 1
  /\ mode \in {"user", "readline", "command"}
  /\ line \in Seq(Char) /\ Len(line) < BUFLEN /\ rest \in Seq(Char)
  /\ Len(argv) < MAXARGS + 1
  /\ \A p \in Prog : print[p].left \in Nat /\ print[p].idx \in 0 .. PRINTBUF - 1
  /\ cputs.left \in 0 .. PRINTBUF - 1

(* Once every byte has been looked at, the driver takes a key for held     *)
(* only if one that means it is down, and waits for no second byte: a      *)
(* shift cannot stick, however presses, repeats, releases and polls come.  *)
NoStuckShift ==
  kbd = <<>> /\ wire = <<>> =>
    shift \subseteq {"CAPSLOCK"} \cup UNION {shiftcode(key.code, key.ext) : key \in held}

(* From rpos to wpos the ring holds what was typed and not yet read, in    *)
(* order, with nothing twice; a writer that catches up with the reader     *)
(* loses exactly a ring full.                                              *)
Pending == [i \in 1 .. (cons.wpos - cons.rpos) % CONSBUFSIZE |-> cons.buf[(cons.rpos + i - 1) % CONSBUFSIZE]]
InputInOrder == Pending = queue

(* What readline() will return is what the screen shows before the cursor, *)
(* as much of it as the screen still holds, and nothing stands after the   *)
(* cursor: whatever is typed and erased, over line ends and scrolling.     *)
ScreenShowsLine ==
  mode = "readline" =>
    /\ \A i \in DOMAIN line :
         LET cell == crt.pos - 1 - (Len(line) - i) IN cell >= 0 => crt.cells[cell] = line[i]
    /\ \A cell \in crt.pos .. CRT_SIZE - 1 : crt.cells[cell] = Blank

(* cprintf() of a program that fits its buffer comes out in one piece, and *)
(* so do the echo and the prompts of the monitor once it runs.             *)
LinesWhole ==
  \A p \in Prog \cup {"kernel"} :
    LET at == {i \in DOMAIN log : log[i] = p}
    IN (p \in Prog => Cardinality(at) <= PRINTBUF - 1) =>
         \A i, k \in at, j \in DOMAIN log : i < j /\ j < k => j \in at

(* argv[] has the maximal words of the line, unless there are too many.    *)
WordsOf(s) ==
  LET starts == {i \in DOMAIN s : s[i] # " " /\ (i = 1 \/ s[i - 1] = " ")}
      stop(i) == Max({j \in i .. Len(s) : \A k \in i .. j : s[k] # " "})
  IN [n \in 1 .. Cardinality(starts) |->
        LET i == CHOOSE i \in starts : Cardinality({j \in starts : j < i}) = n - 1
        IN SubSeq(s, i, stop(i))]
CommandWords ==
  [][mode = "command" /\ mode' # mode =>
       IF Len(WordsOf(line)) < MAXARGS THEN argv' = WordsOf(line) ELSE argv'[MAXARGS] = TooMany]_consoleVars
=============================================================================
