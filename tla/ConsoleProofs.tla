--------------------------- MODULE ConsoleProofs ---------------------------
(***************************************************************************)
(* For consoles of any size, any programs and whatever is typed: the ring  *)
(* holds what was typed in order, a shift cannot stick, the screen shows   *)
(* the line that readline() will return, and lines of output that fit the  *)
(* buffer of cprintf() stay whole.                                         *)
(***************************************************************************)
EXTENDS BootProofs, FiniteSetTheorems, WellFoundedInduction

Who   == Prog \cup {"kernel"}
Glyph == Char \cup {Prompt}
Bits  == {"SHIFT", "CTL", "CAPSLOCK", "E0ESC"}
-----------------------------------------------------------------------------
(* Values of the variables, by the part of the console they belong to.     *)
InputTypes ==
  /\ strokes \in [left : Nat, keys : SUBSET Key, ups : SUBSET Key, chars : SUBSET Char]
  /\ held \in SUBSET Key /\ wire \in Seq(Byte)
  /\ kbd \in Seq(Byte) /\ Len(kbd) <= DEVBUF /\ serial \in Seq(Char)
  /\ shift \in SUBSET Bits /\ poll \in {"none", "serial", "keyboard"}

RingTypes ==
  /\ cons \in [buf : [0 .. CONSBUFSIZE - 1 -> Char \cup {NO}],
               rpos : 0 .. CONSBUFSIZE - 1, wpos : 0 .. CONSBUFSIZE - 1]
  /\ queue \in Seq(Char)

ScreenTypes == crt \in [cells : [0 .. CRT_SIZE - 1 -> Glyph], pos : 0 .. CRT_SIZE - 1]

Words == Seq(Char \cup {"too many"})
ReaderTypes ==
  /\ mode \in {"user", "readline", "command"}
  /\ line \in Seq(Char) /\ Len(line) < BUFLEN
  /\ rest \in Seq(Char)
  /\ argv \in Seq(Words) /\ Len(argv) <= MAXARGS
  /\ mode = "command" => Len(argv) < MAXARGS

PrintTypes ==
  /\ print \in [Prog -> [left : Nat, idx : 0 .. PRINTBUF - 1]]
  /\ cputs \in [who : Who, left : 0 .. PRINTBUF - 1]
  /\ log \in Seq(Who)

(* The kernel does one thing at a time.                                    *)
OneThing ==
  /\ mode # "user" => cputs.left = 0
  /\ poll # "none" => cputs.left = 0 /\ mode # "command"
-----------------------------------------------------------------------------
(* The bytes on their way to kbd_proc_data(), the bits of one that will be *)
(* looked at after an E0, and which of them press and release a bit.       *)
Bytes  == kbd \o wire
Ext(i) == IF i = 1 THEN "E0ESC" \in shift ELSE Bytes[i - 1] = E0
Means(bit, i)    == Bytes[i] # E0 /\ bit \in shiftcode(Bytes[i].code, Ext(i))
Releases(bit, i) == Means(bit, i) /\ Bytes[i].up
Presses(bit, i)  == Means(bit, i) /\ ~Bytes[i].up
HeldDown(bit)    == \E key \in held : bit \in shiftcode(key.code, key.ext)

(* E0 is always followed by the rest of a key, ...                         *)
KeysWhole ==
  /\ "E0ESC" \in shift => Bytes # <<>> /\ Bytes[1] # E0
  /\ \A i \in DOMAIN Bytes : Bytes[i] = E0 => i < Len(Bytes) /\ Bytes[i + 1] # E0

(* ... and a bit that is set and will not be released, or will be pressed  *)
(* and not be released after that, is that of a key that is down.          *)
ShiftFollows ==
  \A bit \in {"SHIFT", "CTL"} :
    /\ bit \in shift /\ (\A i \in DOMAIN Bytes : ~Releases(bit, i)) => HeldDown(bit)
    /\ \A i \in DOMAIN Bytes :
         Presses(bit, i) /\ (\A j \in DOMAIN Bytes : j > i => ~Releases(bit, j)) => HeldDown(bit)
-----------------------------------------------------------------------------
(* The ring, with a position that has gone round at most once.             *)
Round(pos) == IF pos < CONSBUFSIZE THEN pos ELSE pos - CONSBUFSIZE
RingHolds ==
  /\ Len(queue) < CONSBUFSIZE
  /\ cons.wpos = Round(cons.rpos + Len(queue))
  /\ \A i \in 1 .. Len(queue) : cons.buf[Round(cons.rpos + i - 1)] = queue[i]
-----------------------------------------------------------------------------
(* Nothing stands after the cursor, and before it stands the line that is  *)
(* being read, as much of it as has not scrolled away.                     *)
BlankAfter == \A cell \in crt.pos .. CRT_SIZE - 1 : crt.cells[cell] = Blank
LineBefore ==
  mode = "readline" =>
    \A i \in 1 .. Len(line) :
      crt.pos - 1 - (Len(line) - i) >= 0 => crt.cells[crt.pos - 1 - (Len(line) - i)] = line[i]
-----------------------------------------------------------------------------
(* What has been printed for somebody is in one piece and at the end, ...  *)
Of(who)   == {i \in 1 .. Len(log) : log[i] = who}
InPiece(S)  == \A i, k \in S, j \in 1 .. Len(log) : i < j /\ j < k => j \in S
AtEnd(S)   == \A i \in S, j \in 1 .. Len(log) : i < j => j \in S
Silenced(p) == print[p].left = 0 /\ print[p].idx = 0

(* ... of a program until it has printed as much as fits its buffer.       *)
ProgramWhole ==
  \A p \in Prog :
    LET n == Cardinality(Of(p)) IN
    /\ n < PRINTBUF => InPiece(Of(p))
    /\ cputs.left > 0 /\ cputs.who = p /\ n < PRINTBUF - 1 =>
         AtEnd(Of(p)) /\ (n + cputs.left >= PRINTBUF - 1 \/ Silenced(p))
    /\ ~(cputs.left > 0 /\ cputs.who = p) /\ 0 < n /\ n < PRINTBUF - 1 => Silenced(p)
MonitorWhole ==
  /\ mode = "user" => Of("kernel") = {}
  /\ AtEnd(Of("kernel"))
  /\ cputs.left > 0 => cputs.who \in Prog

(* The parts of the invariant, each of variables of its own.               *)
InputInv  == InputTypes /\ KeysWhole /\ ShiftFollows
RingInv   == RingTypes /\ RingHolds
ScreenInv == ScreenTypes /\ BlankAfter /\ LineBefore
ReaderInv == ReaderTypes /\ OneThing
PrintInv  == PrintTypes /\ ProgramWhole /\ MonitorWhole

ConsoleInv == InputInv /\ RingInv /\ ScreenInv /\ ReaderInv /\ PrintInv
-----------------------------------------------------------------------------
(* Sizes, and arithmetic on them.                                          *)
LEMMA Sizes ==
  /\ CONSBUFSIZE \in Nat /\ CONSBUFSIZE > 1
  /\ DEVBUF \in Nat /\ BUFLEN \in Nat \ {0} /\ MAXARGS \in Nat /\ MAXARGS > 1
  /\ PRINTBUF \in Nat /\ PRINTBUF > 1
  /\ CRT_COLS \in Nat /\ CRT_COLS > 0 /\ CRT_ROWS \in Nat /\ CRT_ROWS > 1
<1>1. CONSBUFSIZE \in Nat /\ CONSBUFSIZE > 1
  BY ConsoleAssumption
<1>2. DEVBUF \in Nat /\ BUFLEN \in Nat \ {0} /\ MAXARGS \in Nat /\ MAXARGS > 1
  BY ConsoleAssumption
<1>3. PRINTBUF \in Nat /\ PRINTBUF > 1
  BY ConsoleAssumption
<1>4. CRT_COLS \in Nat /\ CRT_COLS > 0 /\ CRT_ROWS \in Nat /\ CRT_ROWS > 1
  BY ConsoleAssumption
<1>5. QED
  BY <1>1, <1>2, <1>3, <1>4

LEMMA Remainder ==
  ASSUME NEW n \in Nat \ {0}, NEW x \in Nat
  PROVE  /\ x \div n \in Nat /\ (x \div n) * n <= x /\ x < (x \div n) * n + n
         /\ x % n = x - (x \div n) * n
OBVIOUS

LEMMA RemainderSmall ==
  ASSUME NEW n \in Nat \ {0}, NEW x \in Int, x < n
  PROVE  (x >= 0 => x % n = x) /\ (x < 0 /\ x + n >= 0 => x % n = x + n)
OBVIOUS

LEMMA RemainderOnce ==
  ASSUME NEW n \in Nat \ {0}, NEW x \in Nat, x >= n, x < n + n
  PROVE  x % n = x - n
OBVIOUS

LEMMA Monotone ==
  ASSUME NEW n \in Nat, NEW x \in Nat, NEW y \in Nat, x <= y
  PROVE  n * x <= n * y
<1>1. PICK d \in Nat : y = x + d
  OBVIOUS
<1>2. n * y = n * x + n * d /\ n * d \in Nat /\ n * x \in Nat
  BY <1>1
<1>3. QED
  BY <1>2

LEMMA ScreenSize == CRT_SIZE \in Nat /\ CRT_SIZE >= CRT_COLS + CRT_COLS
<1>1. CRT_SIZE \in Nat
  BY Sizes DEF CRT_SIZE
<1>2. CRT_ROWS * CRT_COLS = (CRT_ROWS - 2) * CRT_COLS + 2 * CRT_COLS
  BY Sizes
<1>3. (CRT_ROWS - 2) * CRT_COLS \in Nat
  BY Sizes
<1>4. QED
  BY <1>1, <1>2, <1>3, Sizes DEF CRT_SIZE

LEMMA NextLine ==
  ASSUME NEW pos \in 0 .. CRT_SIZE - 1
  PROVE  pos + CRT_COLS - (pos % CRT_COLS) \in pos + 1 .. CRT_SIZE
<1>1. PICK q \in Nat, r \in Nat, a \in Nat :
         a = CRT_COLS * q /\ r = pos % CRT_COLS /\ pos = a + r /\ r < CRT_COLS
  <2>1. pos \in Nat /\ CRT_COLS \in Nat \ {0}
    BY Sizes, ScreenSize
  <2>2. PICK q \in Nat : q = pos \div CRT_COLS
    BY <2>1, Remainder
  <2>3. q * CRT_COLS <= pos /\ pos < q * CRT_COLS + CRT_COLS /\ pos % CRT_COLS = pos - q * CRT_COLS
    BY <2>1, <2>2, Remainder
  <2>4. PICK a \in Nat : a = CRT_COLS * q
    BY <2>1
  <2>5. q * CRT_COLS = a
    BY <2>1, <2>4
  <2>6. QED
    BY <2>1, <2>3, <2>4, <2>5
<1>2. CRT_SIZE = CRT_COLS * CRT_ROWS
  BY Sizes DEF CRT_SIZE
<1>3. CRT_COLS * (q + 1) = a + CRT_COLS
  BY <1>1, Sizes
<1>4. q < CRT_ROWS
  <2>1. SUFFICES ASSUME q >= CRT_ROWS PROVE FALSE
    BY <1>1, Sizes
  <2>2. CRT_COLS * CRT_ROWS <= CRT_COLS * q
    BY <2>1, Sizes, Monotone
  <2>3. CRT_SIZE <= a
    BY <1>1, <1>2, <2>2
  <2>4. QED
    BY <1>1, <2>3, ScreenSize
<1>5. CRT_COLS * (q + 1) <= CRT_COLS * CRT_ROWS
  BY <1>4, Sizes, Monotone
<1>6. a + CRT_COLS <= CRT_SIZE
  BY <1>2, <1>3, <1>5
<1>7. QED
  BY <1>1, <1>6, Sizes, ScreenSize
-----------------------------------------------------------------------------
(* kbd_proc_data() and the ring.                                           *)
LEMMA CharCodes ==
  ASSUME NEW bits \in SUBSET Bits, NEW code \in Code, NEW ext \in BOOLEAN
  PROVE  charcode(bits, code, ext) \in Char \cup {NO}
<1>1. CASE code \notin {"a", "space", "bs", "enter"}
  BY <1>1 DEF charcode, normalmap, shiftmap, ctlmap
<1>2. CASE code = "a"
  BY <1>2 DEF charcode, normalmap, shiftmap, ctlmap, Char
<1>3. CASE code = "space"
  BY <1>3 DEF charcode, normalmap, shiftmap, ctlmap, Char
<1>4. CASE code = "bs"
  BY <1>4 DEF charcode, normalmap, shiftmap, ctlmap, Char
<1>5. CASE code = "enter"
  BY <1>5 DEF charcode, normalmap, shiftmap, ctlmap, Char
<1>6. QED
  BY <1>1, <1>2, <1>3, <1>4, <1>5

LEMMA ShiftBits ==
  ASSUME NEW code \in Code, NEW ext \in BOOLEAN
  PROVE  /\ shiftcode(code, ext) \in SUBSET {"SHIFT", "CTL"}
         /\ togglecode(code, ext) \in SUBSET {"CAPSLOCK"}
<1>1. shiftcode(code, ext) \in SUBSET {"SHIFT", "CTL"}
  <2>1. CASE code = "ctl"
    BY <2>1 DEF shiftcode
  <2>2. CASE code = "shift" /\ ~ext
    BY <2>2 DEF shiftcode
  <2>3. CASE code # "ctl" /\ ~(code = "shift" /\ ~ext)
    BY <2>3 DEF shiftcode
  <2>4. QED
    BY <2>1, <2>2, <2>3
<1>2. QED
  BY <1>1 DEF togglecode

LEMMA KbdProcData ==
  ASSUME NEW bits \in SUBSET Bits, NEW byte \in Byte
  PROVE  /\ kbd_proc_data(bits, byte).bits \in SUBSET Bits
         /\ kbd_proc_data(bits, byte).char \in Char \cup {NO}
<1>1. CASE byte = E0
  BY <1>1 DEF kbd_proc_data, Bits
<1>2. CASE byte # E0
  <2>1. byte.code \in Code /\ byte.up \in BOOLEAN
    BY <1>2 DEF Byte
  <2>2. CASE byte.up
    BY <1>2, <2>2 DEF kbd_proc_data, Released
  <2>3. CASE ~byte.up
    <3> DEFINE ext  == "E0ESC" \in bits
               down == (bits \ {"E0ESC"}) \cup shiftcode(byte.code, ext)
               now  == (down \ togglecode(byte.code, ext)) \cup (togglecode(byte.code, ext) \ down)
               c    == charcode(now, byte.code, ext)
    <3>1. kbd_proc_data(bits, byte) = [bits |-> now, char |-> IF "CAPSLOCK" \in now THEN OtherCase(c) ELSE c]
      BY <1>2, <2>3 DEF kbd_proc_data, Pressed
    <3>2. ext \in BOOLEAN
      OBVIOUS
    <3> HIDE DEF ext
    <3>3. now \in SUBSET Bits
      BY <2>1, <3>2, ShiftBits DEF Bits
    <3> HIDE DEF now
    <3>4. c \in Char \cup {NO}
      BY <2>1, <3>2, <3>3, CharCodes
    <3> HIDE DEF c
    <3>5. OtherCase(c) \in Char \cup {NO}
      BY <3>4 DEF OtherCase, Char
    <3>6. QED
      BY <3>1, <3>3, <3>4, <3>5
  <2>4. QED
    BY <2>2, <2>3
<1>3. QED
  BY <1>1, <1>2

(* cons_intr(): whatever is put into the ring, it holds what it should.    *)
LEMMA StashesRing ==
  ASSUME RingTypes, RingHolds, NEW c \in Char \cup {NO}, Stashes(c)
  PROVE  RingTypes' /\ RingHolds'
<1> USE Sizes DEF Stashes
<1>1. CASE c = NO
  <2>1. cons' = cons /\ queue' = queue
    BY <1>1 DEF Stash, Enqueue
  <2>2. QED
    BY <2>1 DEF RingTypes, RingHolds
<1>2. CASE c # NO
  <2>1. PICK r \in 0 .. CONSBUFSIZE - 1, w \in 0 .. CONSBUFSIZE - 1, l \in Nat :
          r = cons.rpos /\ w = cons.wpos /\ l = Len(queue)
    BY DEF RingTypes
  <2>2. PICK n \in 0 .. CONSBUFSIZE - 1 : n = Wrap(w + 1)
    BY <2>1 DEF Wrap
  <2>3. l < CONSBUFSIZE /\ w = Round(r + l)
    BY <2>1 DEF RingHolds
  <2>4. cons' = [cons EXCEPT !.buf[w] = c, !.wpos = n]
    BY <1>2, <2>1, <2>2 DEF Stash
  <2>5. /\ cons'.buf = [cons.buf EXCEPT ![w] = c] /\ cons'.rpos = r /\ cons'.wpos = n
        /\ cons' \in [buf : [0 .. CONSBUFSIZE - 1 -> Char \cup {NO}],
                      rpos : 0 .. CONSBUFSIZE - 1, wpos : 0 .. CONSBUFSIZE - 1]
    <3>1. cons \in [buf : [0 .. CONSBUFSIZE - 1 -> Char \cup {NO}],
                    rpos : 0 .. CONSBUFSIZE - 1, wpos : 0 .. CONSBUFSIZE - 1]
      BY DEF RingTypes
    <3>2. [cons.buf EXCEPT ![w] = c] \in [0 .. CONSBUFSIZE - 1 -> Char \cup {NO}]
      BY <3>1
    <3>3. cons' = [buf |-> [cons.buf EXCEPT ![w] = c], rpos |-> r, wpos |-> n]
      BY <2>1, <2>4, <3>1
    <3>4. QED
      BY <3>2, <3>3
  <2>6. CASE l + 1 = CONSBUFSIZE
    <3>1. queue' = <<>>
      BY <1>2, <2>1, <2>6 DEF Enqueue
    <3>2. n = r
      BY <2>1, <2>2, <2>3, <2>6 DEF Wrap, Round
    <3>3. queue' \in Seq(Char) /\ Len(queue') = 0
      BY <3>1
    <3>4. cons'.wpos = Round(cons'.rpos + Len(queue'))
      BY <2>1, <2>5, <3>2, <3>3 DEF Round
    <3>5. QED
      BY <2>5, <3>3, <3>4 DEF RingTypes, RingHolds
  <2>7. CASE l + 1 # CONSBUFSIZE
    <3>1. queue' = Append(queue, c)
      BY <1>2, <2>1, <2>7 DEF Enqueue
    <3>2. /\ queue' \in Seq(Char) /\ Len(queue') = l + 1
          /\ \A i \in 1 .. l : queue'[i] = queue[i]
          /\ queue'[l + 1] = c
      BY <1>2, <2>1, <3>1 DEF RingTypes
    <3>3. l + 1 < CONSBUFSIZE /\ n = Round(r + (l + 1))
      BY <2>1, <2>2, <2>3, <2>7 DEF Wrap, Round
    <3>4. ASSUME NEW i \in 1 .. l + 1 PROVE cons'.buf[Round(r + i - 1)] = queue'[i]
      <4>1. PICK k \in 0 .. CONSBUFSIZE - 1 : k = Round(r + i - 1)
        BY <2>1, <3>3 DEF Round
      <4>2. cons'.buf[k] = IF k = w THEN c ELSE cons.buf[k]
        BY <2>5 DEF RingTypes
      <4>3. CASE i = l + 1
        <5>1. k = w
          BY <2>1, <2>3, <4>1, <4>3
        <5>2. QED
          BY <3>2, <4>1, <4>2, <4>3, <5>1
      <4>4. CASE i # l + 1
        <5>1. i \in 1 .. l /\ k # w
          BY <2>1, <2>3, <4>1, <4>4 DEF Round
        <5>2. cons.buf[k] = queue[i]
          BY <2>1, <4>1, <5>1 DEF RingHolds
        <5>3. QED
          BY <3>2, <4>1, <4>2, <5>1, <5>2
      <4>5. QED
        BY <4>3, <4>4
    <3>5. QED
      BY <2>1, <2>5, <3>2, <3>3, <3>4 DEF RingTypes, RingHolds
  <2>8. QED
    BY <2>6, <2>7
<1>3. QED
  BY <1>1, <1>2

(* cons_getc() takes the oldest character of it.                           *)
LEMMA TakesRing ==
  ASSUME RingTypes, RingHolds, NEW c, ConsGetc(c)
  PROVE  RingTypes' /\ RingHolds' /\ c \in Char \cup {NO}
<1> USE Sizes
<1>1. CASE cons.rpos = cons.wpos
  <2>1. cons' = cons /\ queue' = queue /\ c = NO
    BY <1>1 DEF ConsGetc
  <2>2. QED
    BY <2>1 DEF RingTypes, RingHolds
<1>2. CASE cons.rpos # cons.wpos
  <2>1. PICK r \in 0 .. CONSBUFSIZE - 1, w \in 0 .. CONSBUFSIZE - 1, l \in Nat :
          r = cons.rpos /\ w = cons.wpos /\ l = Len(queue)
    BY DEF RingTypes
  <2>2. PICK n \in 0 .. CONSBUFSIZE - 1 : n = Wrap(r + 1)
    BY <2>1 DEF Wrap
  <2>3. l < CONSBUFSIZE /\ w = Round(r + l)
    BY <2>1 DEF RingHolds
  <2>4. l > 0
    BY <1>2, <2>1, <2>3 DEF Round
  <2>5. cons' = [cons EXCEPT !.rpos = n] /\ queue' = Tail(queue) /\ c = cons.buf[r]
    BY <1>2, <2>1, <2>2 DEF ConsGetc
  <2>6. /\ cons'.buf = cons.buf /\ cons'.rpos = n /\ cons'.wpos = w
        /\ cons' \in [buf : [0 .. CONSBUFSIZE - 1 -> Char \cup {NO}],
                      rpos : 0 .. CONSBUFSIZE - 1, wpos : 0 .. CONSBUFSIZE - 1]
    BY <2>1, <2>5 DEF RingTypes
  <2>7. /\ queue' \in Seq(Char) /\ Len(queue') = l - 1
        /\ \A i \in 1 .. l - 1 : queue'[i] = queue[i + 1]
    BY <2>1, <2>4, <2>5 DEF RingTypes
  <2>8. l - 1 < CONSBUFSIZE /\ w = Round(n + (l - 1))
    <3>1. CASE r + 1 = CONSBUFSIZE
      BY <2>2, <2>3, <2>4, <3>1 DEF Wrap, Round
    <3>2. CASE r + 1 # CONSBUFSIZE
      BY <2>2, <2>3, <2>4, <3>2 DEF Wrap, Round
    <3>3. QED
      BY <3>1, <3>2
  <2>9. ASSUME NEW i \in 1 .. l - 1 PROVE cons'.buf[Round(n + i - 1)] = queue'[i]
    <3>1. Round(n + i - 1) = Round(r + (i + 1) - 1)
      BY <2>1, <2>2, <2>3 DEF Wrap, Round
    <3>2. i + 1 \in 1 .. Len(queue)
      BY <2>1
    <3>3. cons.buf[Round(r + (i + 1) - 1)] = queue[i + 1]
      BY <2>1, <3>2 DEF RingHolds
    <3>4. QED
      BY <2>6, <2>7, <3>1, <3>3
  <2>10. c \in Char \cup {NO}
    BY <2>1, <2>5 DEF RingTypes
  <2>11. QED
    BY <2>1, <2>6, <2>7, <2>8, <2>9, <2>10 DEF RingTypes, RingHolds
<1>3. QED
  BY <1>1, <1>2

(* The ring as InputInOrder reads it.                                      *)
LEMMA RingInOrder == RingTypes /\ RingHolds => InputInOrder
<1> SUFFICES ASSUME RingTypes, RingHolds PROVE Pending = queue
  BY DEF InputInOrder
<1> USE Sizes
<1>1. PICK r \in 0 .. CONSBUFSIZE - 1, w \in 0 .. CONSBUFSIZE - 1, l \in Nat :
        r = cons.rpos /\ w = cons.wpos /\ l = Len(queue)
  BY DEF RingTypes
<1>2. l < CONSBUFSIZE /\ w = Round(r + l)
  BY <1>1 DEF RingHolds
<1>3. (w - r) % CONSBUFSIZE = l
  <2>1. CASE r + l < CONSBUFSIZE
    <3>1. w - r = l
      BY <1>1, <1>2, <2>1 DEF Round
    <3>2. QED
      BY <1>2, <3>1, RemainderSmall
  <2>2. CASE r + l >= CONSBUFSIZE
    <3>1. PICK d \in Int : d = w - r
      OBVIOUS
    <3>2. d < 0 /\ d + CONSBUFSIZE = l
      <4>1. w = r + l - CONSBUFSIZE
        BY <1>2, <2>2 DEF Round
      <4>2. QED
        BY <1>2, <3>1, <4>1
    <3>3. d % CONSBUFSIZE = l
      BY <3>2, RemainderSmall
    <3>4. QED
      BY <3>1, <3>3
  <2>3. QED
    BY <2>1, <2>2
<1>4. ASSUME NEW i \in 1 .. l PROVE cons.buf[(r + i - 1) % CONSBUFSIZE] = queue[i]
  <2>1. PICK x \in Nat : x = r + i - 1
    OBVIOUS
  <2>2. x < CONSBUFSIZE + CONSBUFSIZE
    BY <1>2, <2>1
  <2>3. x % CONSBUFSIZE = Round(x)
    <3>1. CONSBUFSIZE \in Nat \ {0}
      OBVIOUS
    <3>2. CASE x < CONSBUFSIZE
      BY <3>1, <3>2, RemainderSmall DEF Round
    <3>3. CASE x >= CONSBUFSIZE
      <4>1. x % CONSBUFSIZE = x - CONSBUFSIZE
        BY <2>2, <3>1, <3>3, RemainderOnce
      <4>2. QED
        BY <3>3, <4>1 DEF Round
    <3>4. QED
      BY <3>2, <3>3
  <2>4. cons.buf[Round(r + i - 1)] = queue[i]
    BY <1>1 DEF RingHolds
  <2>5. QED
    BY <2>1, <2>3, <2>4
<1>5. Pending = [i \in 1 .. l |-> cons.buf[(r + i - 1) % CONSBUFSIZE]]
  BY <1>1, <1>3 DEF Pending
<1>6. Pending = [i \in 1 .. l |-> queue[i]]
  BY <1>4, <1>5
<1>7. queue = [i \in 1 .. l |-> queue[i]]
  BY <1>1 DEF RingTypes
<1>8. QED
  BY <1>6, <1>7
-----------------------------------------------------------------------------
(* The screen: what is on it before it is scrolled, with nothing after the *)
(* cursor, and a line before it.                                           *)
Screen(s) ==
  /\ s \in [cells : [0 .. CRT_SIZE - 1 -> Glyph], pos : 0 .. CRT_SIZE]
  /\ \A cell \in s.pos .. CRT_SIZE - 1 : s.cells[cell] = Blank
Shows(s, text) ==
  \A i \in 1 .. Len(text) :
    s.pos - 1 - (Len(text) - i) >= 0 => s.cells[s.pos - 1 - (Len(text) - i)] = text[i]

LEMMA BlankIsGlyph == Blank \in Glyph
BY DEF Blank, Glyph, Char

LEMMA ScrolledScreen ==
  ASSUME NEW s, Screen(s)
  PROVE  /\ Screen(Scrolled(s)) /\ Scrolled(s).pos < CRT_SIZE
         /\ \A text \in Seq(Char) : Shows(s, text) => Shows(Scrolled(s), text)
<1> USE Sizes, ScreenSize
<1>1. CASE s.pos < CRT_SIZE
  BY <1>1 DEF Scrolled
<1>2. CASE ~(s.pos < CRT_SIZE)
  <2> DEFINE cells == [i \in 0 .. CRT_SIZE - 1 |->
                         IF i < CRT_SIZE - CRT_COLS THEN s.cells[i + CRT_COLS] ELSE Blank]
  <2>1. s.pos = CRT_SIZE /\ s.cells \in [0 .. CRT_SIZE - 1 -> Glyph]
    BY <1>2 DEF Screen
  <2>2. Scrolled(s) = [cells |-> cells, pos |-> CRT_SIZE - CRT_COLS]
    BY <1>2, <2>1 DEF Scrolled
  <2>3. cells \in [0 .. CRT_SIZE - 1 -> Glyph]
    BY <2>1, BlankIsGlyph
  <2>4. /\ \A i \in 0 .. CRT_SIZE - 1 : i < CRT_SIZE - CRT_COLS => cells[i] = s.cells[i + CRT_COLS]
        /\ \A i \in 0 .. CRT_SIZE - 1 : i >= CRT_SIZE - CRT_COLS => cells[i] = Blank
    OBVIOUS
  <2> HIDE DEF cells
  <2>5. Scrolled(s).cells = cells /\ Scrolled(s).pos = CRT_SIZE - CRT_COLS
    BY <2>2
  <2>6. Screen(Scrolled(s)) /\ Scrolled(s).pos < CRT_SIZE
    BY <2>2, <2>3, <2>4, <2>5 DEF Screen
  <2>7. ASSUME NEW text \in Seq(Char), Shows(s, text),
               NEW i \in 1 .. Len(text), CRT_SIZE - CRT_COLS - 1 - (Len(text) - i) >= 0
        PROVE  cells[CRT_SIZE - CRT_COLS - 1 - (Len(text) - i)] = text[i]
    <3>0. PICK n \in Nat : n = Len(text) - i
      OBVIOUS
    <3>1. PICK k \in 0 .. CRT_SIZE - 1 : k = CRT_SIZE - CRT_COLS - 1 - (Len(text) - i)
      <4>1. CRT_SIZE - CRT_COLS - 1 - n >= 0
        BY <2>7, <3>0
      <4>2. CRT_SIZE - CRT_COLS - 1 - n \in 0 .. CRT_SIZE - 1
        BY <4>1
      <4>3. QED
        BY <3>0, <4>2
    <3>2. k < CRT_SIZE - CRT_COLS /\ k + CRT_COLS = s.pos - 1 - (Len(text) - i) /\ k + CRT_COLS >= 0
      BY <2>1, <3>0, <3>1
    <3>3. s.cells[k + CRT_COLS] = text[i]
      BY <2>7, <3>2 DEF Shows
    <3>4. QED
      BY <2>4, <3>1, <3>2, <3>3
  <2>8. \A text \in Seq(Char) : Shows(s, text) => Shows(Scrolled(s), text)
    BY <2>5, <2>7 DEF Shows
  <2>9. QED
    BY <2>6, <2>8
<1>3. QED
  BY <1>1, <1>2

LEMMA FrontIs ==
  ASSUME NEW text \in Seq(Char), text # <<>>
  PROVE  /\ Front(text) \in Seq(Char) /\ Len(Front(text)) = Len(text) - 1
         /\ \A i \in 1 .. Len(text) - 1 : Front(text)[i] = text[i]
<1>1. PICK n \in Nat : n = Len(text) - 1
  OBVIOUS
<1>2. \A i \in 1 .. n : text[i] \in Char
  BY <1>1
<1>3. SubSeq(text, 1, n) \in Seq(Char)
  BY <1>2, SubSeqProperties
<1>4. Len(SubSeq(text, 1, n)) = n
  BY <1>2, SubSeqProperties
<1>5. \A i \in 1 .. n : SubSeq(text, 1, n)[i] = text[i]
  BY <1>2, SubSeqProperties
<1>6. QED
  BY <1>1, <1>3, <1>4, <1>5 DEF Front

LEMMA RubOutScreen ==
  ASSUME NEW s, Screen(s)
  PROVE  /\ Screen(RubOut(s))
         /\ \A text \in Seq(Char) : text # <<>> /\ Shows(s, text) => Shows(RubOut(s), Front(text))
<1> USE ScreenSize
<1>1. s.pos \in 0 .. CRT_SIZE /\ s.cells \in [0 .. CRT_SIZE - 1 -> Glyph]
  BY DEF Screen
<1>2. ASSUME NEW text \in Seq(Char), text # <<>>
      PROVE  /\ Front(text) \in Seq(Char) /\ Len(Front(text)) = Len(text) - 1
             /\ \A i \in 1 .. Len(text) - 1 : Front(text)[i] = text[i]
  BY <1>2, FrontIs
<1>3. CASE s.pos = 0
  <2>1. RubOut(s) = s
    BY <1>3 DEF RubOut
  <2>2. ASSUME NEW text \in Seq(Char), text # <<>> PROVE Shows(s, Front(text))
    BY <1>2, <1>3, <2>2 DEF Shows
  <2>3. QED
    BY <2>1, <2>2
<1>4. CASE s.pos > 0
  <2> DEFINE cells == [s.cells EXCEPT ![s.pos - 1] = Blank]
  <2>1. RubOut(s) = [cells |-> cells, pos |-> s.pos - 1]
    BY <1>4 DEF RubOut
  <2>2. cells \in [0 .. CRT_SIZE - 1 -> Glyph]
    BY <1>1, <1>4, BlankIsGlyph
  <2>3. \A i \in 0 .. CRT_SIZE - 1 : cells[i] = IF i = s.pos - 1 THEN Blank ELSE s.cells[i]
    BY <1>1
  <2> HIDE DEF cells
  <2>4. RubOut(s).cells = cells /\ RubOut(s).pos = s.pos - 1
    BY <2>1
  <2>5. Screen(RubOut(s))
    BY <1>1, <1>4, <2>1, <2>2, <2>3, <2>4 DEF Screen
  <2>6. ASSUME NEW text \in Seq(Char), text # <<>>, Shows(s, text), NEW i \in 1 .. Len(text) - 1,
               s.pos - 1 - 1 - (Len(text) - 1 - i) >= 0
        PROVE  cells[s.pos - 1 - 1 - (Len(text) - 1 - i)] = text[i]
    <3>1. PICK k \in 0 .. CRT_SIZE - 1 : k = s.pos - 1 - (Len(text) - i)
      BY <1>1, <2>6
    <3>2. k = s.pos - 1 - 1 - (Len(text) - 1 - i) /\ k # s.pos - 1 /\ k >= 0
      BY <1>1, <2>6, <3>1
    <3>3. s.cells[k] = text[i]
      BY <2>6, <3>1, <3>2 DEF Shows
    <3>4. QED
      BY <2>3, <3>2, <3>3
  <2>7. ASSUME NEW text \in Seq(Char), text # <<>>, Shows(s, text) PROVE Shows(RubOut(s), Front(text))
    <3>1. /\ Len(Front(text)) = Len(text) - 1
          /\ \A i \in 1 .. Len(text) - 1 : Front(text)[i] = text[i]
      BY <1>2, <2>7
    <3>2. \A i \in 1 .. Len(text) - 1 : s.pos - 1 - 1 - (Len(text) - 1 - i) >= 0
            => cells[s.pos - 1 - 1 - (Len(text) - 1 - i)] = text[i]
      BY <2>6, <2>7
    <3>3. QED
      BY <2>4, <3>1, <3>2 DEF Shows
  <2>8. QED
    BY <2>5, <2>7
<1>5. QED
  BY <1>1, <1>3, <1>4

LEMMA GlyphScreen ==
  ASSUME NEW s, Screen(s), s.pos < CRT_SIZE, NEW c \in Glyph, NEW t,
         t = [cells |-> [s.cells EXCEPT ![s.pos] = c], pos |-> s.pos + 1]
  PROVE  /\ Screen(t)
         /\ \A text \in Seq(Char) : c \in Char /\ Shows(s, text) => Shows(t, Append(text, c))
<1> USE ScreenSize
<1>1. s.pos \in 0 .. CRT_SIZE - 1 /\ s.cells \in [0 .. CRT_SIZE - 1 -> Glyph]
  BY DEF Screen
<1>2. t.cells = [s.cells EXCEPT ![s.pos] = c] /\ t.pos = s.pos + 1
  OBVIOUS
<1>3. /\ t.cells \in [0 .. CRT_SIZE - 1 -> Glyph]
      /\ \A i \in 0 .. CRT_SIZE - 1 : t.cells[i] = IF i = s.pos THEN c ELSE s.cells[i]
  BY <1>1, <1>2
<1>4. Screen(t)
  <2>1. t \in [cells : [0 .. CRT_SIZE - 1 -> Glyph], pos : 0 .. CRT_SIZE]
    BY <1>1, <1>2, <1>3
  <2>2. ASSUME NEW cell \in t.pos .. CRT_SIZE - 1 PROVE t.cells[cell] = Blank
    <3>1. cell \in s.pos .. CRT_SIZE - 1 /\ cell # s.pos /\ cell \in 0 .. CRT_SIZE - 1
      BY <1>1, <1>2
    <3>2. QED
      BY <1>3, <3>1 DEF Screen
  <2>3. QED
    BY <2>1, <2>2 DEF Screen
<1>5. ASSUME NEW text \in Seq(Char), c \in Char, Shows(s, text) PROVE Shows(t, Append(text, c))
  <2>1. /\ Len(Append(text, c)) = Len(text) + 1 /\ Append(text, c)[Len(text) + 1] = c
        /\ \A i \in 1 .. Len(text) : Append(text, c)[i] = text[i]
    OBVIOUS
  <2>2. ASSUME NEW i \in 1 .. Len(text) + 1, t.pos - 1 - (Len(text) + 1 - i) >= 0
        PROVE  t.cells[t.pos - 1 - (Len(text) + 1 - i)] = Append(text, c)[i]
    <3>1. PICK k \in 0 .. CRT_SIZE - 1 : k = t.pos - 1 - (Len(text) + 1 - i)
      BY <1>1, <1>2, <2>2
    <3>2. CASE i = Len(text) + 1
      <4>1. k = s.pos
        BY <1>1, <1>2, <3>1, <3>2
      <4>2. QED
        BY <1>3, <2>1, <3>1, <3>2, <4>1
    <3>3. CASE i # Len(text) + 1
      <4>1. i \in 1 .. Len(text) /\ k # s.pos /\ k = s.pos - 1 - (Len(text) - i) /\ k >= 0
        <5>1. PICK l \in Nat, n \in 0 .. CRT_SIZE - 1 : l = Len(text) /\ n = s.pos
          BY <1>1
        <5>2. i \in 1 .. l + 1 /\ i # l + 1 /\ k = n + 1 - 1 - (l + 1 - i)
          BY <1>2, <3>1, <3>3, <5>1
        <5>3. i \in 1 .. l /\ k # n /\ k = n - 1 - (l - i) /\ k >= 0
          BY <5>2
        <5>4. QED
          BY <5>1, <5>3
      <4>2. s.cells[k] = text[i]
        BY <1>5, <4>1 DEF Shows
      <4>3. QED
        BY <1>3, <2>1, <3>1, <4>1, <4>2
    <3>4. QED
      BY <3>2, <3>3
  <2>3. QED
    BY <2>1, <2>2 DEF Shows
<1>6. QED
  BY <1>4, <1>5

LEMMA LineFeedScreen ==
  ASSUME NEW s, Screen(s), s.pos < CRT_SIZE, NEW n \in s.pos + 1 .. CRT_SIZE,
         NEW t, t = [s EXCEPT !.pos = n]
  PROVE  Screen(t)
<1> USE ScreenSize
<1>1. s.pos \in 0 .. CRT_SIZE - 1 /\ s.cells \in [0 .. CRT_SIZE - 1 -> Glyph]
  BY DEF Screen
<1>2. t.cells = s.cells /\ t.pos = n /\ t \in [cells : [0 .. CRT_SIZE - 1 -> Glyph], pos : 0 .. CRT_SIZE]
  BY <1>1 DEF Screen
<1>3. QED
  BY <1>1, <1>2 DEF Screen

(* cga_putc(): the screen is one again, and it follows the line.           *)
LEMMA CgaPutc ==
  ASSUME NEW s, Screen(s), s.pos < CRT_SIZE, NEW c \in Glyph
  PROVE  /\ Screen(cga_putc(s, c)) /\ cga_putc(s, c).pos < CRT_SIZE
         /\ \A text \in Seq(Char) : Shows(s, text) =>
              /\ c = "BS" /\ text # <<>> => Shows(cga_putc(s, c), Front(text))
              /\ c \in Char \ {"BS", "LF"} => Shows(cga_putc(s, c), Append(text, c))
<1>1. CASE c = "BS"
  <2>1. cga_putc(s, c) = Scrolled(RubOut(s))
    BY <1>1 DEF cga_putc
  <2>2. ASSUME NEW text \in Seq(Char), text # <<>> PROVE Front(text) \in Seq(Char)
    BY <2>2, FrontIs
  <2>3. QED
    BY <1>1, <2>1, <2>2, RubOutScreen, ScrolledScreen
<1>2. CASE c = "LF"
  <2> DEFINE t == [s EXCEPT !.pos = @ + CRT_COLS - (@ % CRT_COLS)]
  <2>1. cga_putc(s, c) = Scrolled(t)
    BY <1>2 DEF cga_putc
  <2>2. s.pos + CRT_COLS - (s.pos % CRT_COLS) \in s.pos + 1 .. CRT_SIZE
    <3>1. s.pos \in 0 .. CRT_SIZE - 1
      BY ScreenSize DEF Screen
    <3>2. QED
      BY <3>1, NextLine
  <2>3. Screen(t)
    BY <2>2, LineFeedScreen
  <2> HIDE DEF t
  <2>4. QED
    BY <1>2, <2>1, <2>3, ScrolledScreen
<1>3. CASE c \notin {"BS", "LF"}
  <2> DEFINE t == [cells |-> [s.cells EXCEPT ![s.pos] = c], pos |-> s.pos + 1]
  <2>1. cga_putc(s, c) = Scrolled(t)
    BY <1>3 DEF cga_putc
  <2>2. /\ Screen(t)
        /\ \A text \in Seq(Char) : c \in Char /\ Shows(s, text) => Shows(t, Append(text, c))
    BY GlyphScreen
  <2> HIDE DEF t
  <2>3. ASSUME NEW text \in Seq(Char), Shows(s, text), c \in Char PROVE Shows(Scrolled(t), Append(text, c))
    <3>1. Append(text, c) \in Seq(Char)
      BY <2>3
    <3>2. QED
      BY <2>2, <2>3, <3>1, ScrolledScreen
  <2>4. QED
    BY <1>3, <2>1, <2>2, <2>3, ScrolledScreen
<1>4. QED
  BY <1>1, <1>2, <1>3
-----------------------------------------------------------------------------
(* The bits after a byte.                                                  *)
LEMMA ShiftAfter ==
  ASSUME NEW bits \in SUBSET Bits, NEW byte \in Byte, NEW s, s = kbd_proc_data(bits, byte).bits,
         NEW bit \in {"SHIFT", "CTL"}
  PROVE  /\ "E0ESC" \in s <=> byte = E0
         /\ byte = E0 => (bit \in s <=> bit \in bits)
         /\ byte # E0 /\ byte.up =>
              (bit \in s <=> bit \in bits /\ bit \notin shiftcode(byte.code, "E0ESC" \in bits))
         /\ byte # E0 /\ ~byte.up =>
              (bit \in s <=> bit \in bits \/ bit \in shiftcode(byte.code, "E0ESC" \in bits))
<1>1. CASE byte = E0
  BY <1>1 DEF kbd_proc_data
<1>2. CASE byte # E0
  <2>1. byte.code \in Code /\ byte.up \in BOOLEAN
    BY <1>2 DEF Byte
  <2>2. PICK ext \in BOOLEAN : ext = ("E0ESC" \in bits)
    <3>1. ("E0ESC" \in bits) \in BOOLEAN
      OBVIOUS
    <3>2. QED
      BY <3>1, Zenon
  <2>3. PICK sc \in SUBSET {"SHIFT", "CTL"} : sc = shiftcode(byte.code, ext)
    BY <2>1, ShiftBits
  <2>4. PICK tc \in SUBSET {"CAPSLOCK"} : tc = togglecode(byte.code, ext)
    BY <2>1, ShiftBits
  <2>5. CASE byte.up
    <3>1. s = bits \ (sc \cup {"E0ESC"})
      BY <1>2, <2>2, <2>3, <2>5 DEF kbd_proc_data, Released
    <3>2. QED
      BY <1>2, <2>2, <2>3, <2>5, <3>1
  <2>6. CASE ~byte.up
    <3>1. PICK down : down = (bits \ {"E0ESC"}) \cup sc
      OBVIOUS
    <3>2. s = (down \ tc) \cup (tc \ down)
      BY <1>2, <2>2, <2>3, <2>4, <2>6, <3>1 DEF kbd_proc_data, Pressed
    <3>3. QED
      BY <1>2, <2>2, <2>3, <2>6, <3>1, <3>2
  <2>7. QED
    BY <2>5, <2>6
<1>3. QED
  BY <1>1, <1>2

(* Sequences put together and taken apart.                                 *)
LEMMA AppendHead ==
  ASSUME NEW S, NEW s \in Seq(S), NEW t \in Seq(S), t # <<>>
  PROVE  Append(s, Head(t)) \o Tail(t) = s \o t
<1>1. /\ Append(s, Head(t)) \in Seq(S) /\ Len(Append(s, Head(t))) = Len(s) + 1
      /\ Tail(t) \in Seq(S) /\ Len(Tail(t)) = Len(t) - 1
  OBVIOUS
<1>2. Len(Append(s, Head(t)) \o Tail(t)) = Len(s \o t)
  BY <1>1
<1>3. ASSUME NEW i \in 1 .. Len(s) + Len(t)
      PROVE  (Append(s, Head(t)) \o Tail(t))[i] = (s \o t)[i]
  BY <1>1
<1>4. QED
  BY <1>1, <1>2, <1>3

LEMMA TailOfBoth ==
  ASSUME NEW S, NEW s \in Seq(S), NEW t \in Seq(S), s # <<>>
  PROVE  /\ Tail(s) \o t \in Seq(S) /\ Len(Tail(s) \o t) = Len(s \o t) - 1
         /\ \A i \in 1 .. Len(s \o t) - 1 : (Tail(s) \o t)[i] = (s \o t)[i + 1]
         /\ Head(s) = (s \o t)[1] /\ Len(s \o t) > 0
OBVIOUS

LEMMA BytesOf == InputTypes => Bytes \in Seq(Byte)
BY DEF InputTypes, Bytes

LEMMA InputTypesNext == InputTypes' => Bytes' \in Seq(Byte)
BY DEF InputTypes, Bytes
-----------------------------------------------------------------------------
(* A key is sent: its bytes are appended, and the last one is its code.    *)
Sent(key, up, n) ==
  /\ n \in DOMAIN Bytes' /\ n \notin DOMAIN Bytes
  /\ Bytes'[n] = [code |-> key.code, up |-> up]
  /\ \A bit \in {"SHIFT", "CTL"} :
       /\ \A i \in DOMAIN Bytes : Bytes'[i] = Bytes[i] /\ (Means(bit, i)' <=> Means(bit, i))
       /\ Means(bit, n)' <=> bit \in shiftcode(key.code, key.ext)
       /\ \A i \in DOMAIN Bytes' : i \in DOMAIN Bytes \/ i = n \/ ~Means(bit, i)'

LEMMA CodeIsNotE0 ==
  ASSUME NEW code \in Code, NEW up \in BOOLEAN
  PROVE  [code |-> code, up |-> up] \in Byte /\ [code |-> code, up |-> up] # E0
<1>1. code # "E0"
  BY DEF Code
<1>2. [code |-> code, up |-> up].code # E0.code
  BY <1>1 DEF E0
<1>3. QED
  BY <1>2 DEF Byte

LEMMA TwoOfThem ==
  ASSUME NEW a, NEW b
  PROVE  <<a>> \o <<b>> = <<a, b>>
<1> DEFINE S == {a, b}
<1>1. <<a>> \in Seq(S) /\ <<a, b>> \in Seq(S)
  OBVIOUS
<1>2. a \in S /\ b \in S
  OBVIOUS
<1> HIDE DEF S
<1>3. Len(<<a>>) = 1 /\ Len(<<a, b>>) = 2 /\ <<a>>[1] = a /\ <<a, b>>[1] = a /\ <<a, b>>[2] = b
  OBVIOUS
<1>4. ASSUME NEW s \in Seq(S), NEW u \in Seq(S), Len(s) = 1, Len(u) = 2, s[1] = a, u[1] = a, u[2] = b
      PROVE  Append(s, b) = u
  <2>1. Append(s, b) \in Seq(S) /\ Len(Append(s, b)) = Len(u) /\ Append(s, b)[1] = a
    <3>1. Append(s, b) \in Seq(S)
      BY <1>2, AppendProperties
    <3>2. Len(Append(s, b)) = Len(s) + 1
      BY <1>2, AppendProperties
    <3>3. 1 \in 1 .. Len(s)
      BY <1>4
    <3>4. Append(s, b)[1] = s[1]
      BY <1>2, <3>3, AppendProperties
    <3>5. Len(s) + 1 = 2
      BY <1>4
    <3>6. QED
      BY <1>4, <3>1, <3>2, <3>4, <3>5
  <2>2. Append(s, b)[2] = b
    <3>1. Append(s, b)[Len(s) + 1] = b
      BY <1>2, AppendProperties
    <3>2. Len(s) + 1 = 2
      BY <1>4
    <3>3. QED
      BY <3>1, <3>2
  <2>3. \A i \in 1 .. Len(Append(s, b)) : i = 1 \/ i = 2
    BY <1>4, <2>1
  <2>4. \A i \in 1 .. Len(Append(s, b)) : Append(s, b)[i] = u[i]
    BY <1>4, <2>1, <2>2, <2>3
  <2>5. QED
    BY <2>1, <2>4, SeqEqual
<1>5. Append(<<a>>, b) = <<a, b>>
  BY <1>1, <1>4, <1>3
<1>6. Append(<<a>>, b) = <<a>> \o <<b>>
  BY <1>2, <1>1, AppendIsConcat
<1>7. QED
  BY <1>5, <1>6

LEMMA CodesAre ==
  ASSUME NEW key \in Key, NEW up \in BOOLEAN
  PROVE  /\ Codes(key, up) \in Seq(Byte) /\ Codes(key, up) # <<>>
         /\ key.ext => Codes(key, up) = <<E0, [code |-> key.code, up |-> up]>>
         /\ ~key.ext => Codes(key, up) = <<[code |-> key.code, up |-> up]>>
<1>1. key.code \in Code /\ key.ext \in BOOLEAN
  BY DEF Key
<1>2. [code |-> key.code, up |-> up] \in Byte /\ E0 \in Byte
  BY <1>1, CodeIsNotE0 DEF Byte
<1>3. PICK byte \in Byte : byte = [code |-> key.code, up |-> up]
  BY <1>2
<1>4. Codes(key, up) = (IF key.ext THEN <<E0>> ELSE <<>>) \o <<byte>>
  BY <1>3 DEF Codes
<1>5. CASE key.ext
  <2>1. Codes(key, up) = <<E0>> \o <<byte>>
    BY <1>4, <1>5
  <2>2. <<E0, byte>> \in Seq(Byte) /\ <<E0, byte>> # <<>>
    BY <1>2
  <2>3. QED
    BY <1>3, <1>5, <2>1, <2>2, TwoOfThem
<1>6. CASE ~key.ext
  <2>1. Codes(key, up) = <<>> \o <<byte>>
    BY <1>4, <1>6
  <2>2. <<>> \o <<byte>> = <<byte>> /\ <<byte>> \in Seq(Byte) /\ <<byte>> # <<>>
    BY <1>2
  <2>3. QED
    BY <1>3, <1>6, <2>1, <2>2
<1>7. QED
  BY <1>1, <1>5, <1>6

LEMMA StrokesLess ==
  ASSUME NEW s \in [left : Nat, keys : SUBSET Key, ups : SUBSET Key, chars : SUBSET Char], s.left > 0
  PROVE  [s EXCEPT !.left = @ - 1] \in [left : Nat, keys : SUBSET Key, ups : SUBSET Key, chars : SUBSET Char]
<1>1. s.left - 1 \in Nat
  OBVIOUS
<1>2. ASSUME NEW n \in Nat
      PROVE  [s EXCEPT !.left = n] \in [left : Nat, keys : SUBSET Key, ups : SUBSET Key, chars : SUBSET Char]
  OBVIOUS
<1>3. QED
  BY <1>1, <1>2

LEMMA SendsTypes ==
  ASSUME InputTypes, NEW key \in Key, NEW up \in BOOLEAN, Sends(Codes(key, up)), held' \in SUBSET Key
  PROVE  InputTypes' /\ Bytes' = Bytes \o Codes(key, up)
<1> DEFINE b == Codes(key, up)
<1>1. b \in Seq(Byte) /\ b # <<>>
  BY CodesAre
<1> HIDE DEF b
<1>2. /\ wire = <<>> /\ kbd' = Append(kbd, Head(b)) /\ wire' = Tail(b) /\ Len(kbd) < DEVBUF
      /\ strokes.left > 0 /\ strokes' = [strokes EXCEPT !.left = @ - 1]
      /\ serial' = serial /\ shift' = shift /\ poll' = poll
  BY DEF Sends, b
<1>3. kbd' \in Seq(Byte) /\ Len(kbd') <= DEVBUF /\ wire' \in Seq(Byte)
  BY <1>1, <1>2, Sizes DEF InputTypes
<1>4. strokes' \in [left : Nat, keys : SUBSET Key, ups : SUBSET Key, chars : SUBSET Char]
  BY <1>2, StrokesLess DEF InputTypes
<1>5. Bytes = kbd /\ kbd \in Seq(Byte)
  BY <1>2 DEF Bytes, InputTypes
<1>6. kbd' \o wire' = kbd \o b
  BY <1>1, <1>2, <1>5, AppendHead
<1>7. Bytes' = Bytes \o b
  BY <1>5, <1>6 DEF Bytes
<1>8. QED
  BY <1>2, <1>3, <1>4, <1>7 DEF InputTypes, b

LEMMA SendsKey ==
  ASSUME InputTypes, KeysWhole, NEW key \in Key, NEW up \in BOOLEAN, Sends(Codes(key, up)),
         held' \in SUBSET Key
  PROVE  InputTypes' /\ KeysWhole' /\ \E n \in Nat : Sent(key, up, n)
<1>1. InputTypes' /\ Bytes' = Bytes \o Codes(key, up) /\ Bytes \in Seq(Byte) /\ shift' = shift
  BY SendsTypes, BytesOf DEF Sends
<1>2. PICK code \in Code, ext \in BOOLEAN : code = key.code /\ ext = key.ext
  BY DEF Key
<1>3. PICK byte \in Byte : byte = [code |-> code, up |-> up]
  BY CodeIsNotE0
<1>4. byte # E0 /\ byte.code = code /\ byte.up = up
  BY <1>3, CodeIsNotE0
<1>5. PICK l \in Nat : l = Len(Bytes)
  BY <1>1
<1>6. PICK n \in Nat : n = IF ext THEN l + 2 ELSE l + 1
  OBVIOUS
<1>7. /\ Len(Bytes') = n /\ Bytes'[n] = byte
      /\ \A i \in 1 .. l : Bytes'[i] = Bytes[i]
      /\ ext => Bytes'[l + 1] = E0
  <2>1. CASE ext
    <3>1. Codes(key, up) = <<E0, byte>>
      BY <1>2, <1>3, <2>1, CodesAre
    <3>2. QED
      BY <1>1, <1>5, <1>6, <2>1, <3>1
  <2>2. CASE ~ext
    <3>1. Codes(key, up) = <<byte>>
      BY <1>2, <1>3, <2>2, CodesAre
    <3>2. QED
      BY <1>1, <1>5, <1>6, <2>2, <3>1
  <2>3. QED
    BY <2>1, <2>2
<1>8. Bytes' \in Seq(Byte) /\ DOMAIN Bytes' = 1 .. n /\ DOMAIN Bytes = 1 .. l
  BY <1>1, <1>5, <1>7, InputTypesNext
<1>9. /\ l = 0 => "E0ESC" \notin shift
      /\ l > 0 => Bytes[l] # E0
  BY <1>1, <1>5, <1>8 DEF KeysWhole
<1>10. KeysWhole'
  <2>1. "E0ESC" \in shift' => Bytes' # <<>> /\ Bytes'[1] # E0
    BY <1>1, <1>5, <1>6, <1>7, <1>8, <1>9 DEF KeysWhole
  <2>2. ASSUME NEW i \in 1 .. n, Bytes'[i] = E0 PROVE i < n /\ Bytes'[i + 1] # E0
    <3>1. CASE i \in 1 .. l
      <4>1. i < l /\ Bytes[i + 1] # E0
        BY <1>5, <1>7, <1>8, <2>2, <3>1 DEF KeysWhole
      <4>2. QED
        BY <1>6, <1>7, <4>1
    <3>2. CASE i \notin 1 .. l
      BY <1>4, <1>5, <1>6, <1>7, <2>2, <3>2
    <3>3. QED
      BY <3>1, <3>2
  <2>3. QED
    BY <1>7, <1>8, <2>1, <2>2 DEF KeysWhole
<1>11. ASSUME NEW bit \in {"SHIFT", "CTL"}, NEW i \in 1 .. l PROVE Means(bit, i)' <=> Means(bit, i)
  <2>1. Ext(i)' <=> Ext(i)
    <3>1. CASE i = 1
      BY <1>1, <3>1 DEF Ext
    <3>2. CASE i # 1
      <4>1. i - 1 \in 1 .. l
        BY <3>2
      <4>2. QED
        BY <1>7, <3>2, <4>1 DEF Ext
    <3>3. QED
      BY <3>1, <3>2
  <2>2. Bytes'[i] = Bytes[i]
    BY <1>7
  <2>3. shiftcode(Bytes[i].code, Ext(i)') = shiftcode(Bytes[i].code, Ext(i))
    BY <2>1 DEF shiftcode
  <2>4. QED
    BY <2>2, <2>3 DEF Means
<1>12. ASSUME NEW bit \in {"SHIFT", "CTL"} PROVE Means(bit, n)' <=> bit \in shiftcode(code, ext)
  <2>1. Ext(n)' <=> ext
    <3>1. CASE ext
      <4>1. n # 1 /\ n - 1 = l + 1
        BY <1>5, <1>6, <3>1
      <4>2. QED
        BY <1>7, <3>1, <4>1 DEF Ext
    <3>2. CASE ~ext /\ l = 0
      BY <1>1, <1>6, <1>9, <3>2 DEF Ext
    <3>3. CASE ~ext /\ l > 0
      <4>1. n # 1 /\ n - 1 = l /\ l \in 1 .. l
        BY <1>5, <1>6, <3>3
      <4>2. QED
        BY <1>7, <1>9, <3>3, <4>1 DEF Ext
    <3>4. QED
      BY <1>5, <3>1, <3>2, <3>3
  <2>2. shiftcode(code, Ext(n)') = shiftcode(code, ext)
    BY <2>1 DEF shiftcode
  <2>3. QED
    BY <1>4, <1>7, <2>2 DEF Means
<1>13. ASSUME NEW bit \in {"SHIFT", "CTL"}, NEW i \in 1 .. n, i \notin 1 .. l, i # n PROVE ~Means(bit, i)'
  <2>1. ext /\ i = l + 1
    BY <1>5, <1>6, <1>13
  <2>2. QED
    BY <1>7, <2>1 DEF Means
<1>14. Sent(key, up, n)
  <2>1. n \in DOMAIN Bytes' /\ n \notin DOMAIN Bytes
    BY <1>5, <1>6, <1>8
  <2>2. Bytes'[n] = [code |-> key.code, up |-> up]
    BY <1>2, <1>3, <1>7
  <2>3. ASSUME NEW bit \in {"SHIFT", "CTL"}
        PROVE  /\ \A i \in DOMAIN Bytes : Bytes'[i] = Bytes[i] /\ (Means(bit, i)' <=> Means(bit, i))
               /\ Means(bit, n)' <=> bit \in shiftcode(key.code, key.ext)
               /\ \A i \in DOMAIN Bytes' : i \in DOMAIN Bytes \/ i = n \/ ~Means(bit, i)'
    BY <1>2, <1>7, <1>8, <1>11, <1>12, <1>13
  <2>4. QED
    BY <2>1, <2>2, <2>3 DEF Sent
<1>15. QED
  BY <1>1, <1>10, <1>14
-----------------------------------------------------------------------------
(* Keys go down and up, and a bit follows them.                            *)
LEMMA KeptBytes ==
  ASSUME InputTypes, InputTypes', NEW n, n \in DOMAIN Bytes', n \notin DOMAIN Bytes
  PROVE  \A i \in DOMAIN Bytes : i \in DOMAIN Bytes' /\ n > i
<1>1. Bytes \in Seq(Byte) /\ Bytes' \in Seq(Byte)
  BY BytesOf, InputTypesNext
<1>2. QED
  BY <1>1

LEMMA KeyDownInput == ASSUME InputInv, NEW key \in Key, KeyDown(key) PROVE InputInv'
<1> USE DEF InputInv
<1>1. Sends(Codes(key, FALSE)) /\ held' = held \cup {key} /\ held' \in SUBSET Key /\ shift' = shift
  BY DEF KeyDown, Sends, InputTypes
<1>2. InputTypes' /\ KeysWhole' /\ \E n \in Nat : Sent(key, FALSE, n)
  BY <1>1, SendsKey
<1>3. PICK n \in Nat : Sent(key, FALSE, n)
  BY <1>2
<1>4. ASSUME NEW bit \in {"SHIFT", "CTL"} PROVE HeldDown(bit) => HeldDown(bit)'
  BY <1>1 DEF HeldDown
<1>5. \A i \in DOMAIN Bytes : i \in DOMAIN Bytes' /\ n > i
  BY <1>2, <1>3, KeptBytes DEF Sent
<1>6. ASSUME NEW bit \in {"SHIFT", "CTL"},
             bit \in shift', \A i \in DOMAIN Bytes' : ~Releases(bit, i)'
      PROVE  HeldDown(bit)'
  <2>1. \A i \in DOMAIN Bytes : ~Releases(bit, i)
    BY <1>3, <1>5, <1>6 DEF Sent, Releases
  <2>2. QED
    BY <1>1, <1>4, <1>6, <2>1 DEF ShiftFollows
<1>7. ASSUME NEW bit \in {"SHIFT", "CTL"}, NEW i \in DOMAIN Bytes',
             Presses(bit, i)', \A j \in DOMAIN Bytes' : j > i => ~Releases(bit, j)'
      PROVE  HeldDown(bit)'
  <2>1. CASE i = n
    <3>1. bit \in shiftcode(key.code, key.ext)
      BY <1>3, <1>7, <2>1 DEF Sent, Presses
    <3>2. QED
      BY <1>1, <3>1 DEF HeldDown
  <2>2. CASE i # n
    <3>1. i \in DOMAIN Bytes /\ Presses(bit, i)
      BY <1>3, <1>7, <2>2 DEF Sent, Presses
    <3>2. \A j \in DOMAIN Bytes : j > i => ~Releases(bit, j)
      BY <1>3, <1>5, <1>7 DEF Sent, Releases
    <3>3. QED
      BY <1>4, <3>1, <3>2 DEF ShiftFollows
  <2>3. QED
    BY <2>1, <2>2
<1>8. ShiftFollows'
  BY <1>6, <1>7 DEF ShiftFollows
<1>9. QED
  BY <1>2, <1>8

LEMMA KeyUpInput == ASSUME InputInv, NEW key \in Key, KeyUp(key) PROVE InputInv'
<1> USE DEF InputInv
<1>1. Sends(Codes(key, TRUE)) /\ held' = held \ {key} /\ held' \in SUBSET Key /\ shift' = shift
  BY DEF KeyUp, Sends, InputTypes
<1>2. InputTypes' /\ KeysWhole' /\ \E n \in Nat : Sent(key, TRUE, n)
  BY <1>1, SendsKey
<1>3. PICK n \in Nat : Sent(key, TRUE, n)
  BY <1>2
<1>4. ASSUME NEW bit \in {"SHIFT", "CTL"}, HeldDown(bit), ~Releases(bit, n)' PROVE HeldDown(bit)'
  <2>1. bit \notin shiftcode(key.code, key.ext)
    BY <1>3, <1>4 DEF Sent, Releases
  <2>2. QED
    BY <1>1, <1>4, <2>1 DEF HeldDown
<1>5. \A i \in DOMAIN Bytes : i \in DOMAIN Bytes' /\ n > i
  BY <1>2, <1>3, KeptBytes DEF Sent
<1>6. ASSUME NEW bit \in {"SHIFT", "CTL"},
             bit \in shift', \A i \in DOMAIN Bytes' : ~Releases(bit, i)'
      PROVE  HeldDown(bit)'
  <2>1. \A i \in DOMAIN Bytes : ~Releases(bit, i)
    BY <1>3, <1>5, <1>6 DEF Sent, Releases
  <2>2. HeldDown(bit)
    BY <1>1, <1>6, <2>1 DEF ShiftFollows
  <2>3. QED
    BY <1>3, <1>4, <1>6, <2>2 DEF Sent
<1>7. ASSUME NEW bit \in {"SHIFT", "CTL"}, NEW i \in DOMAIN Bytes',
             Presses(bit, i)', \A j \in DOMAIN Bytes' : j > i => ~Releases(bit, j)'
      PROVE  HeldDown(bit)'
  <2>1. i # n
    BY <1>3, <1>7 DEF Sent, Presses
  <2>2. i \in DOMAIN Bytes /\ Presses(bit, i)
    BY <1>3, <1>7, <2>1 DEF Sent, Presses
  <2>3. \A j \in DOMAIN Bytes : j > i => ~Releases(bit, j)
    BY <1>3, <1>5, <1>7 DEF Sent, Releases
  <2>4. HeldDown(bit)
    BY <2>2, <2>3 DEF ShiftFollows
  <2>5. QED
    BY <1>3, <1>4, <1>5, <1>7, <2>2, <2>4 DEF Sent
<1>8. ShiftFollows'
  BY <1>6, <1>7 DEF ShiftFollows
<1>9. QED
  BY <1>2, <1>8

(* The bits and the bytes are the same: the keys that are down are, too.   *)
LEMMA SameBytes ==
  ASSUME InputInv, InputTypes', Bytes' = Bytes, shift' = shift, held' = held
  PROVE  InputInv'
<1>1. KeysWhole'
  BY DEF InputInv, KeysWhole
<1>2. ShiftFollows'
  BY DEF InputInv, ShiftFollows, HeldDown, Releases, Presses, Means, Ext
<1>3. QED
  BY <1>1, <1>2 DEF InputInv

LEMMA ArriveInput == ASSUME InputInv, Arrive PROVE InputInv'
<1>1. /\ kbd \in Seq(Byte) /\ wire \in Seq(Byte) /\ wire # <<>> /\ Len(kbd) < DEVBUF
      /\ kbd' = Append(kbd, Head(wire)) /\ wire' = Tail(wire)
  BY DEF Arrive, InputInv, InputTypes
<1>2. kbd' \in Seq(Byte) /\ Len(kbd') <= DEVBUF /\ wire' \in Seq(Byte)
  BY <1>1, Sizes
<1>3. InputTypes'
  BY <1>2 DEF Arrive, InputInv, InputTypes
<1>4. Bytes' = Bytes
  BY <1>1, AppendHead DEF Bytes
<1>5. QED
  BY <1>3, <1>4, SameBytes DEF Arrive

LEMMA SerialLineInput == ASSUME InputInv, NEW c \in Char, SerialLine(c) PROVE InputInv'
<1>1. strokes' \in [left : Nat, keys : SUBSET Key, ups : SUBSET Key, chars : SUBSET Char]
  BY StrokesLess DEF SerialLine, InputInv, InputTypes
<1>2. serial' \in Seq(Char)
  BY DEF SerialLine
<1>3. InputTypes'
  BY <1>1, <1>2 DEF SerialLine, InputInv, InputTypes
<1>4. Bytes' = Bytes
  BY DEF SerialLine, Bytes
<1>5. QED
  BY <1>3, <1>4, SameBytes DEF SerialLine

LEMMA SerialIntrInput == ASSUME InputInv, SerialIntr PROVE InputInv'
<1>1. serial' \in Seq(Char)
  BY DEF SerialIntr, InputInv, InputTypes
<1>2. InputTypes'
  BY <1>1 DEF SerialIntr, input, InputInv, InputTypes
<1>3. Bytes' = Bytes
  BY DEF SerialIntr, input, Bytes
<1>4. QED
  BY <1>2, <1>3, SameBytes DEF SerialIntr, input

(* Another device is looked at, or none; and steps of other parts.         *)
LEMMA PollInput ==
  ASSUME InputInv, UNCHANGED <<strokes, held, wire, kbd, serial, shift>>,
         poll' \in {"none", "serial", "keyboard"}
  PROVE  InputInv'
<1>1. InputTypes'
  BY DEF InputInv, InputTypes
<1>2. Bytes' = Bytes
  BY DEF Bytes
<1>3. QED
  BY <1>1, <1>2, SameBytes
-----------------------------------------------------------------------------
(* A byte is looked at: the bits are those of what is left of the bytes.   *)
LEMMA KbdIntrInput == ASSUME InputInv, KbdIntr PROVE InputInv'
<1> USE DEF InputInv
<1>1. /\ kbd \in Seq(Byte) /\ wire \in Seq(Byte) /\ kbd # <<>> /\ kbd' = Tail(kbd) /\ wire' = wire
      /\ shift \in SUBSET Bits /\ shift' = kbd_proc_data(shift, Head(kbd)).bits /\ held' = held
  BY DEF KbdIntr, input, InputTypes
<1>2. PICK byte \in Byte : byte = Head(kbd)
  BY <1>1
<1>3. kbd' \in Seq(Byte) /\ Len(kbd') <= DEVBUF
  BY <1>1, Sizes DEF InputTypes
<1>4. shift' \in SUBSET Bits
  BY <1>1, <1>2, KbdProcData
<1>5. InputTypes'
  BY <1>3, <1>4 DEF KbdIntr, input, InputTypes
<1>6. PICK l \in Nat : l + 1 = Len(Bytes)
  <2>1. Len(Bytes) \in Nat /\ Len(Bytes) > 0
    BY <1>1, TailOfBoth, BytesOf DEF Bytes
  <2>2. QED
    BY <2>1
<1>7. /\ DOMAIN Bytes = 1 .. l + 1 /\ DOMAIN Bytes' = 1 .. l /\ Len(Bytes') = l
      /\ Bytes[1] = byte /\ \A i \in 1 .. l : Bytes'[i] = Bytes[i + 1]
  <2>1. DOMAIN Bytes = 1 .. l + 1
    BY <1>6, BytesOf
  <2>2. Bytes' = Tail(kbd) \o wire
    BY <1>1 DEF Bytes
  <2>3. Len(Bytes') = l
    BY <1>1, <1>6, <2>2, TailOfBoth DEF Bytes
  <2>4. DOMAIN Bytes' = 1 .. l
    BY <1>5, <2>3, InputTypesNext
  <2>5. Bytes[1] = byte
    BY <1>1, <1>2, TailOfBoth DEF Bytes
  <2>6. \A i \in 1 .. Len(Bytes) - 1 : Bytes'[i] = Bytes[i + 1]
    BY <1>1, <2>2, TailOfBoth DEF Bytes
  <2>7. \A i \in 1 .. l : Bytes'[i] = Bytes[i + 1]
    BY <1>6, <2>6
  <2>8. QED
    BY <2>1, <2>3, <2>4, <2>5, <2>7
<1>8. "E0ESC" \in shift' <=> byte = E0
  <2>1. "E0ESC" \in kbd_proc_data(shift, byte).bits <=> byte = E0
    <3>1. "SHIFT" \in {"SHIFT", "CTL"}
      OBVIOUS
    <3>2. QED
      BY <1>1, <3>1, ShiftAfter
  <2>2. QED
    BY <1>1, <1>2, <2>1
<1>9. KeysWhole'
  <2>1. "E0ESC" \in shift' => Bytes' # <<>> /\ Bytes'[1] # E0
    <3>1. SUFFICES ASSUME byte = E0 PROVE Bytes' # <<>> /\ Bytes'[1] # E0
      BY <1>8
    <3>2. 1 < l + 1 /\ Bytes[1 + 1] # E0
      BY <1>6, <1>7, <3>1 DEF KeysWhole
    <3>3. 1 \in 1 .. l
      BY <3>2
    <3>4. QED
      BY <1>7, <3>2, <3>3
  <2>2. ASSUME NEW i \in 1 .. l, Bytes'[i] = E0 PROVE i < l /\ Bytes'[i + 1] # E0
    <3>1. i + 1 \in 1 .. l + 1 /\ Bytes[i + 1] = E0
      BY <1>7, <2>2
    <3>2. i + 1 < l + 1 /\ Bytes[i + 1 + 1] # E0
      BY <1>6, <1>7, <3>1 DEF KeysWhole
    <3>3. i + 1 \in 1 .. l
      BY <3>2
    <3>4. QED
      BY <1>7, <3>2, <3>3
  <2>3. QED
    BY <1>7, <2>1, <2>2 DEF KeysWhole
<1>10. ASSUME NEW bit \in {"SHIFT", "CTL"}, NEW i \in 1 .. l
       PROVE  Means(bit, i)' <=> Means(bit, i + 1)
  <2>1. Ext(i)' <=> Ext(i + 1)
    <3>1. CASE i = 1
      BY <1>7, <1>8, <3>1 DEF Ext
    <3>2. CASE i # 1
      <4>1. i - 1 \in 1 .. l /\ i + 1 # 1 /\ i - 1 + 1 = i /\ i + 1 - 1 = i
        BY <3>2
      <4>2. Bytes'[i - 1] = Bytes[i]
        BY <1>7, <4>1
      <4>3. QED
        BY <3>2, <4>1, <4>2 DEF Ext
    <3>3. QED
      BY <3>1, <3>2
  <2>2. shiftcode(Bytes[i + 1].code, Ext(i)') = shiftcode(Bytes[i + 1].code, Ext(i + 1))
    BY <2>1 DEF shiftcode
  <2>3. QED
    BY <1>7, <2>2 DEF Means
<1>11. ASSUME NEW bit \in {"SHIFT", "CTL"}, NEW i \in 1 .. l
       PROVE  /\ Releases(bit, i)' <=> Releases(bit, i + 1)
              /\ Presses(bit, i)' <=> Presses(bit, i + 1)
  BY <1>7, <1>10 DEF Releases, Presses
<1>12. ASSUME NEW bit \in {"SHIFT", "CTL"}, bit \in shift'
       PROVE  (bit \in shift /\ ~Releases(bit, 1)) \/ Presses(bit, 1)
  <2>1. Means(bit, 1) <=> byte # E0 /\ bit \in shiftcode(byte.code, "E0ESC" \in shift)
    BY <1>7 DEF Means, Ext
  <2>2. CASE byte = E0
    <3>1. bit \in shift
      BY <1>1, <1>2, <1>12, <2>2, ShiftAfter
    <3>2. QED
      BY <2>1, <2>2, <3>1 DEF Releases
  <2>3. CASE byte # E0 /\ byte.up
    <3>1. bit \in shift /\ bit \notin shiftcode(byte.code, "E0ESC" \in shift)
      BY <1>1, <1>2, <1>12, <2>3, ShiftAfter
    <3>2. QED
      BY <2>1, <3>1 DEF Releases
  <2>4. CASE byte # E0 /\ ~byte.up
    <3>1. bit \in shift \/ bit \in shiftcode(byte.code, "E0ESC" \in shift)
      BY <1>1, <1>2, <1>12, <2>4, ShiftAfter
    <3>2. QED
      BY <1>7, <2>1, <2>4, <3>1 DEF Releases, Presses
  <2>5. QED
    BY <2>2, <2>3, <2>4
<1>13. ASSUME NEW bit \in {"SHIFT", "CTL"} PROVE HeldDown(bit)' <=> HeldDown(bit)
  BY <1>1 DEF HeldDown
<1>14. ASSUME NEW bit \in {"SHIFT", "CTL"}, NEW i \in 1 .. l + 1,
              Presses(bit, i), \A j \in 1 .. l : j >= i => ~Releases(bit, j)'
       PROVE  HeldDown(bit)
  <2>1. ASSUME NEW j \in 1 .. l + 1, j > i PROVE ~Releases(bit, j)
    <3>1. j - 1 \in 1 .. l /\ j - 1 >= i /\ j - 1 + 1 = j
      BY <2>1
    <3>2. QED
      BY <1>11, <1>14, <3>1
  <2>2. QED
    BY <1>7, <1>14, <2>1 DEF ShiftFollows
<1>15. ASSUME NEW bit \in {"SHIFT", "CTL"},
              bit \in shift', \A i \in 1 .. l : ~Releases(bit, i)'
       PROVE  HeldDown(bit)
  <2>1. CASE Presses(bit, 1)
    BY <1>14, <1>15, <2>1
  <2>2. CASE bit \in shift /\ ~Releases(bit, 1)
    <3>1. ASSUME NEW i \in 1 .. l + 1 PROVE ~Releases(bit, i)
      <4>1. CASE i = 1
        BY <2>2, <4>1
      <4>2. CASE i # 1
        <5>1. i - 1 \in 1 .. l /\ i - 1 + 1 = i
          BY <4>2
        <5>2. QED
          BY <1>11, <1>15, <5>1
      <4>3. QED
        BY <4>1, <4>2
    <3>2. QED
      BY <1>7, <2>2, <3>1 DEF ShiftFollows
  <2>3. QED
    BY <1>12, <1>15, <2>1, <2>2
<1>16. ASSUME NEW bit \in {"SHIFT", "CTL"}, NEW i \in 1 .. l,
              Presses(bit, i)', \A j \in 1 .. l : j > i => ~Releases(bit, j)'
       PROVE  HeldDown(bit)
  <2>1. i + 1 \in 1 .. l + 1 /\ Presses(bit, i + 1)
    BY <1>11, <1>16
  <2>2. \A j \in 1 .. l : j >= i + 1 => ~Releases(bit, j)'
    BY <1>16
  <2>3. QED
    BY <1>14, <2>1, <2>2
<1>17. ShiftFollows'
  BY <1>7, <1>13, <1>15, <1>16 DEF ShiftFollows
<1>18. QED
  BY <1>5, <1>9, <1>17
-----------------------------------------------------------------------------
(* What the keyboard, the serial port and the reader do with the ring.     *)
LEMMA SerialIntrRing == InputInv /\ RingInv /\ SerialIntr => RingInv'
<1> SUFFICES ASSUME InputInv, RingInv, SerialIntr PROVE RingInv'
  OBVIOUS
<1>1. Head(serial) \in Char
  BY DEF InputInv, InputTypes, SerialIntr
<1>2. QED
  BY <1>1, StashesRing DEF RingInv, SerialIntr

LEMMA KbdIntrRing == InputInv /\ RingInv /\ KbdIntr => RingInv'
<1> SUFFICES ASSUME InputInv, RingInv, KbdIntr PROVE RingInv'
  OBVIOUS
<1>1. Head(kbd) \in Byte /\ shift \in SUBSET Bits
  BY DEF InputInv, InputTypes, KbdIntr
<1>2. kbd_proc_data(shift, Head(kbd)).char \in Char \cup {NO}
  BY <1>1, KbdProcData
<1>3. QED
  BY <1>2, StashesRing DEF RingInv, KbdIntr

LEMMA ConsGetcRing == ASSUME RingInv, NEW c, ConsGetc(c) PROVE RingInv'
BY TakesRing DEF RingInv

LEMMA SameRing == ASSUME RingInv, UNCHANGED <<cons, queue>> PROVE RingInv'
BY DEF RingInv, RingTypes, RingHolds
-----------------------------------------------------------------------------
(* The screen and the line.                                                *)
LEMMA ScreenIs == ScreenTypes /\ BlankAfter <=> Screen(crt) /\ crt.pos < CRT_SIZE
<1> USE ScreenSize
<1>1. ASSUME ScreenTypes, BlankAfter PROVE Screen(crt) /\ crt.pos < CRT_SIZE
  BY <1>1 DEF ScreenTypes, BlankAfter, Screen
<1>2. ASSUME Screen(crt), crt.pos < CRT_SIZE PROVE ScreenTypes /\ BlankAfter
  <2>1. crt.pos \in 0 .. CRT_SIZE - 1
    BY <1>2 DEF Screen
  <2>2. crt \in [cells : [0 .. CRT_SIZE - 1 -> Glyph], pos : 0 .. CRT_SIZE - 1]
    BY <1>2, <2>1 DEF Screen
  <2>3. QED
    BY <1>2, <2>2 DEF ScreenTypes, BlankAfter, Screen
<1>3. QED
  BY <1>1, <1>2

LEMMA ScreenIsNext == ScreenTypes' /\ BlankAfter' <=> Screen(crt') /\ crt'.pos < CRT_SIZE
<1> USE ScreenSize
<1>1. ASSUME ScreenTypes', BlankAfter' PROVE Screen(crt') /\ crt'.pos < CRT_SIZE
  BY <1>1 DEF ScreenTypes, BlankAfter, Screen
<1>2. ASSUME Screen(crt'), crt'.pos < CRT_SIZE PROVE ScreenTypes' /\ BlankAfter'
  <2>1. crt'.pos \in 0 .. CRT_SIZE - 1
    BY <1>2 DEF Screen
  <2>2. crt' \in [cells : [0 .. CRT_SIZE - 1 -> Glyph], pos : 0 .. CRT_SIZE - 1]
    BY <1>2, <2>1 DEF Screen
  <2>3. QED
    BY <1>2, <2>2 DEF ScreenTypes, BlankAfter, Screen
<1>3. QED
  BY <1>1, <1>2

(* A character goes to the screen, and the line follows it.                *)
LEMMA PutScreen ==
  ASSUME ScreenInv, NEW c \in Glyph, crt' = cga_putc(crt, c),
         mode' = "readline" =>
           \/ line' = <<>>
           \/ mode = "readline" /\ line \in Seq(Char) /\
              \/ c = "BS" /\ line # <<>> /\ line' = Front(line)
              \/ c \in Char \ {"BS", "LF"} /\ line' = Append(line, c)
  PROVE  ScreenInv'
<1>1. Screen(crt) /\ crt.pos < CRT_SIZE
  BY ScreenIs DEF ScreenInv
<1>2. Screen(crt') /\ crt'.pos < CRT_SIZE
  BY <1>1, CgaPutc
<1>3. ScreenTypes' /\ BlankAfter'
  BY <1>2, ScreenIsNext
<1>4. LineBefore'
  <2> SUFFICES ASSUME mode' = "readline" PROVE Shows(crt', line')
    BY DEF LineBefore, Shows
  <2>1. CASE line' = <<>>
    BY <2>1 DEF Shows
  <2>2. CASE mode = "readline" /\ line \in Seq(Char)
    <3>1. Shows(crt, line)
      BY <2>2 DEF ScreenInv, LineBefore, Shows
    <3>2. /\ c = "BS" /\ line # <<>> => Shows(crt', Front(line))
          /\ c \in Char \ {"BS", "LF"} => Shows(crt', Append(line, c))
      BY <1>1, <2>2, <3>1, CgaPutc
    <3>3. CASE line' = <<>>
      BY <3>3 DEF Shows
    <3>4. CASE c = "BS" /\ line # <<>> /\ line' = Front(line)
      BY <3>2, <3>4
    <3>5. CASE c \in Char \ {"BS", "LF"} /\ line' = Append(line, c)
      BY <3>2, <3>5
    <3>6. QED
      BY <3>3, <3>4, <3>5
  <2>3. QED
    BY <2>1, <2>2
<1>5. QED
  BY <1>3, <1>4 DEF ScreenInv

LEMMA SameScreen ==
  ASSUME ScreenInv, crt' = crt, mode' = "readline" => mode = "readline" /\ line' = line
  PROVE  ScreenInv'
BY DEF ScreenInv, ScreenTypes, BlankAfter, LineBefore

LEMMA MonitorScreen == ScreenInv /\ Monitor => ScreenInv'
BY PutScreen DEF Monitor, Put, Glyph

LEMMA ReadEraseScreen == ScreenInv /\ ReaderInv /\ ReadErase => ScreenInv'
<1> SUFFICES ASSUME ScreenInv, ReaderInv, ReadErase PROVE ScreenInv'
  OBVIOUS
<1>1. /\ crt' = cga_putc(crt, "BS") /\ line # <<>> /\ line' = Front(line)
      /\ mode = "readline" /\ line \in Seq(Char)
  BY DEF ReadErase, IsErase, Reads, Put, ReaderInv, ReaderTypes
<1>2. "BS" \in Glyph
  BY DEF Glyph, Char
<1>3. QED
  BY <1>1, <1>2, PutScreen

LEMMA ReadTextScreen == ScreenInv /\ ReaderInv /\ ReadText => ScreenInv'
<1> SUFFICES ASSUME ScreenInv, ReaderInv, ReadText PROVE ScreenInv'
  OBVIOUS
<1>1. PICK c \in Char : /\ IsText(c) /\ crt' = cga_putc(crt, c) /\ line' = Append(line, c)
                        /\ mode = "readline"
  BY DEF ReadText, Reads, Put
<1>2. c \in Char \ {"BS", "LF"} /\ c \in Glyph /\ line \in Seq(Char)
  BY <1>1 DEF IsText, Glyph, ReaderInv, ReaderTypes
<1>3. QED
  BY <1>1, <1>2, PutScreen

LEMMA ReadEnterScreen == ScreenInv /\ ReadEnter => ScreenInv'
<1> SUFFICES ASSUME ScreenInv, ReadEnter PROVE ScreenInv'
  OBVIOUS
<1>1. crt' = cga_putc(crt, "LF") /\ mode' = "command" /\ "LF" \in Glyph
  BY DEF ReadEnter, Put, Glyph, Char
<1>2. QED
  BY <1>1, PutScreen

LEMMA PromptsScreen == ScreenInv /\ Prompts => ScreenInv'
BY PutScreen DEF Prompts, Put, Glyph

LEMMA CputcharScreen == ScreenInv /\ ReaderInv /\ Cputchar => ScreenInv'
<1> SUFFICES ASSUME ScreenInv, ReaderInv, Cputchar PROVE ScreenInv'
  OBVIOUS
<1>1. crt' = cga_putc(crt, "a") /\ "a" \in Glyph /\ mode' = mode
  BY DEF Cputchar, Put, Glyph, Char, reader
<1>2. mode = "user"
  <2>1. cputs.left # 0
    BY DEF Cputchar
  <2>2. QED
    BY <2>1 DEF ReaderInv, OneThing
<1>3. QED
  BY <1>1, <1>2, PutScreen
-----------------------------------------------------------------------------
(* The least of some numbers, and what runcmd() takes from a line with it. *)
LEMMA MinIsIn == ASSUME NEW S \in SUBSET Nat, S # {} PROVE Min(S) \in S
<1>1. PICK x \in S : \A y \in S : ~ (<<y, x>> \in OpToRel(<, Nat))
  BY NatLessThanWellFounded, WFMin
<1>2. \A y \in S : x <= y
  <2>1. ASSUME NEW y \in S, y < x PROVE <<y, x>> \in OpToRel(<, Nat)
    <3>1. <<y, x>> \in Nat \X Nat /\ <<y, x>>[1] = y /\ <<y, x>>[2] = x
      OBVIOUS
    <3>2. QED
      BY <2>1, <3>1 DEF OpToRel
  <2>2. \A y \in S : ~ (y < x)
    BY <1>1, <2>1, Zenon
  <2>3. QED
    BY <2>2
<1>3. QED
  BY <1>2 DEF Min

LEMMA NoWords == <<>> \in Seq(Words) /\ Len(<<>>) = 0 /\ <<>> \in Seq(Char)
OBVIOUS

LEMMA PieceOf ==
  ASSUME NEW s \in Seq(Char), NEW m \in Nat \ {0}, NEW n \in 0 .. Len(s)
  PROVE  SubSeq(s, m, n) \in Seq(Char) /\ SubSeq(s, m, n) \in Words
<1>1. \A i \in m .. n : s[i] \in Char
  OBVIOUS
<1>2. PICK S : S = Char \cup {"too many"}
  OBVIOUS
<1>3. \A i \in m .. n : s[i] \in S
  BY <1>1, <1>2
<1>4. SubSeq(s, m, n) \in Seq(Char)
  BY <1>1, SubSeqProperties
<1>5. SubSeq(s, m, n) \in Seq(S)
  BY <1>3, SubSeqProperties
<1>6. QED
  BY <1>2, <1>4, <1>5 DEF Words

LEMMA SkipBlanksType == ASSUME NEW s \in Seq(Char) PROVE SkipBlanks(s) \in Seq(Char)
<1> DEFINE texts == {i \in DOMAIN s : s[i] # " "}
<1>1. CASE texts = {}
  <2>1. SkipBlanks(s) = <<>>
    BY <1>1 DEF SkipBlanks
  <2>2. QED
    BY <2>1, NoWords
<1>2. CASE texts # {}
  <2>1. texts \in SUBSET Nat /\ texts \subseteq 1 .. Len(s)
    <3>1. texts \subseteq DOMAIN s
      BY Zenon
    <3> HIDE DEF texts
    <3>2. DOMAIN s = 1 .. Len(s)
      OBVIOUS
    <3>3. QED
      BY <3>1, <3>2
  <2>2. Min(texts) \in 1 .. Len(s)
    BY <1>2, <2>1, MinIsIn
  <2>3. SkipBlanks(s) = SubSeq(s, Min(texts), Len(s))
    BY <1>2 DEF SkipBlanks
  <2> HIDE DEF texts
  <2>4. QED
    BY <2>2, <2>3, PieceOf
<1>3. QED
  BY <1>1, <1>2

LEMMA WordEndType == ASSUME NEW s \in Seq(Char) PROVE WordEnd(s) \in 0 .. Len(s)
<1> DEFINE ends == {i \in DOMAIN s : s[i] = " "}
<1>1. CASE ends = {}
  <2>1. WordEnd(s) = Len(s)
    BY <1>1 DEF WordEnd
  <2>2. QED
    BY <2>1
<1>2. CASE ends # {}
  <2>1. ends \in SUBSET Nat /\ ends \subseteq 1 .. Len(s)
    <3>1. ends \subseteq DOMAIN s
      BY Zenon
    <3> HIDE DEF ends
    <3>2. DOMAIN s = 1 .. Len(s)
      OBVIOUS
    <3>3. QED
      BY <3>1, <3>2
  <2>2. Min(ends) \in 1 .. Len(s)
    BY <1>2, <2>1, MinIsIn
  <2>3. WordEnd(s) = Min(ends) - 1
    BY <1>2 DEF WordEnd
  <2> HIDE DEF ends
  <2>4. Min(ends) - 1 \in 0 .. Len(s)
    BY <2>2
  <2>5. QED
    BY <2>3, <2>4
<1>3. QED
  BY <1>1, <1>2
-----------------------------------------------------------------------------
(* readline() and runcmd(): what they hold.                                *)
LEMMA SameReader == ASSUME ReaderInv, UNCHANGED reader, OneThing' PROVE ReaderInv'
BY DEF ReaderInv, ReaderTypes, reader

LEMMA MonitorReader == ReaderInv /\ Monitor => ReaderInv'
<1> SUFFICES ASSUME ReaderInv, Monitor PROVE ReaderInv'
  OBVIOUS
<1>1. mode' = "readline" /\ line' = <<>> /\ rest' = rest /\ argv' = argv
  BY DEF Monitor
<1>2. ReaderTypes'
  BY <1>1, NoWords, Sizes DEF ReaderInv, ReaderTypes
<1>3. cputs' = cputs /\ poll' = poll /\ cputs.left = 0 /\ poll = "none"
  BY DEF Monitor, Free, devices
<1>4. QED
  BY <1>2, <1>3 DEF ReaderInv, OneThing

LEMMA ReadEraseReader == ReaderInv /\ ReadErase => ReaderInv'
<1> SUFFICES ASSUME ReaderInv, ReadErase PROVE ReaderInv'
  OBVIOUS
<1>1. /\ mode = "readline" /\ line' = Front(line) /\ line # <<>> /\ cputs' = cputs /\ poll' = "none"
      /\ mode' = mode /\ rest' = rest /\ argv' = argv
  BY DEF ReadErase, IsErase, Reads, ConsGetc
<1>2. Front(line) \in Seq(Char) /\ Len(Front(line)) = Len(line) - 1
  BY <1>1, FrontIs DEF ReaderInv, ReaderTypes
<1>3. Len(line) \in Nat /\ Len(Front(line)) < BUFLEN
  BY <1>2, Sizes DEF ReaderInv, ReaderTypes
<1>4. ReaderTypes'
  BY <1>1, <1>2, <1>3 DEF ReaderInv, ReaderTypes
<1>5. QED
  BY <1>1, <1>4 DEF ReaderInv, OneThing

LEMMA ReadTextReader == ReaderInv /\ ReadText => ReaderInv'
<1> SUFFICES ASSUME ReaderInv, ReadText PROVE ReaderInv'
  OBVIOUS
<1>1. PICK c \in Char : Fits /\ Reads(c) /\ line' = Append(line, c) /\ UNCHANGED <<mode, rest, argv>>
  BY DEF ReadText
<1>2. Append(line, c) \in Seq(Char) /\ Len(Append(line, c)) = Len(line) + 1 /\ Len(line) \in Nat
  BY DEF ReaderInv, ReaderTypes
<1>3. Len(Append(line, c)) < BUFLEN
  BY <1>1, <1>2, Sizes DEF Fits
<1>4. ReaderTypes'
  BY <1>1, <1>2, <1>3 DEF ReaderInv, ReaderTypes
<1>5. QED
  BY <1>1, <1>4 DEF ReaderInv, OneThing, Reads, ConsGetc

LEMMA ReadEnterReader == ReaderInv /\ ReadEnter => ReaderInv'
<1> SUFFICES ASSUME ReaderInv, ReadEnter PROVE ReaderInv'
  OBVIOUS
<1>1. /\ mode = "readline" /\ mode' = "command" /\ rest' = line /\ argv' = <<>> /\ line' = line
      /\ cputs' = cputs /\ poll' = "none"
  BY DEF ReadEnter, Reads, ConsGetc
<1>2. ReaderTypes'
  BY <1>1, NoWords, Sizes DEF ReaderInv, ReaderTypes
<1>3. QED
  BY <1>1, <1>2 DEF ReaderInv, OneThing

LEMMA NextWordReader == ReaderInv /\ NextWord => ReaderInv'
<1> SUFFICES ASSUME ReaderInv, NextWord PROVE ReaderInv'
  OBVIOUS
<1>1. PICK words \in Seq(Char) : words = SkipBlanks(rest)
  BY SkipBlanksType DEF ReaderInv, ReaderTypes
<1>2. PICK end \in 0 .. Len(words) : end = WordEnd(words)
  BY WordEndType
<1>3. /\ argv' = Append(argv, SubSeq(words, 1, end)) /\ rest' = SubSeq(words, end + 1, Len(words))
      /\ mode = "command" /\ mode' = mode /\ line' = line /\ Len(argv) < MAXARGS - 1
      /\ cputs' = cputs /\ poll' = poll
  BY <1>1, <1>2 DEF NextWord, output, devices
<1>4. rest' \in Seq(Char)
  BY <1>3, PieceOf
<1>5. SubSeq(words, 1, end) \in Words
  BY PieceOf
<1>6. argv \in Seq(Words) /\ Len(argv) \in Nat
  BY DEF ReaderInv, ReaderTypes
<1>7. argv' \in Seq(Words) /\ Len(argv') < MAXARGS
  BY <1>3, <1>5, <1>6, Sizes
<1>8. ReaderTypes'
  BY <1>3, <1>4, <1>7, Sizes DEF ReaderInv, ReaderTypes
<1>9. QED
  BY <1>3, <1>8 DEF ReaderInv, OneThing

LEMMA PromptsReader ==
  ASSUME ReaderInv, mode = "command", Prompts, argv' \in Seq(Words), Len(argv') <= MAXARGS
  PROVE  ReaderInv'
<1>1. /\ mode' = "readline" /\ line' = <<>> /\ rest' = rest /\ cputs' = cputs /\ poll' = poll
  BY DEF Prompts, devices
<1>2. ReaderTypes'
  BY <1>1, NoWords, Sizes DEF ReaderInv, ReaderTypes
<1>3. QED
  BY <1>1, <1>2 DEF ReaderInv, OneThing

LEMMA RunCommandReader == ReaderInv /\ RunCommand => ReaderInv'
BY PromptsReader DEF RunCommand, ReaderInv, ReaderTypes

LEMMA TooManyArgumentsReader == ReaderInv /\ TooManyArguments => ReaderInv'
<1> SUFFICES ASSUME ReaderInv, TooManyArguments PROVE ReaderInv'
  OBVIOUS
<1>1. argv \in Seq(Words) /\ Len(argv) = MAXARGS - 1 /\ argv' = Append(argv, TooMany)
  BY DEF TooManyArguments, ReaderInv, ReaderTypes
<1>2. TooMany \in Words
  BY DEF TooMany, Words
<1>3. argv' \in Seq(Words) /\ Len(argv') <= MAXARGS
  BY <1>1, <1>2, Sizes
<1>4. QED
  BY <1>3, PromptsReader DEF TooManyArguments

LEMMA SysCputsReader == ASSUME ReaderInv, NEW p \in Prog, SysCputs(p) PROVE ReaderInv'
<1>1. UNCHANGED reader /\ mode' = "user" /\ poll' = "none"
  BY DEF SysCputs, Free, reader, devices
<1>2. QED
  BY <1>1, SameReader DEF OneThing

LEMMA CputcharReader == ReaderInv /\ Cputchar => ReaderInv'
<1> SUFFICES ASSUME ReaderInv, Cputchar PROVE ReaderInv'
  OBVIOUS
<1>1. UNCHANGED reader /\ mode' = mode /\ poll' = poll /\ cputs.left # 0
  BY DEF Cputchar, reader, devices
<1>2. QED
  BY <1>1, SameReader DEF ReaderInv, OneThing
-----------------------------------------------------------------------------
(* The characters of one of those who print, when one more is printed.     *)
LEMMA OfIsFinite ==
  ASSUME PrintTypes, NEW p
  PROVE  /\ Of(p) \subseteq 1 .. Len(log) /\ IsFiniteSet(Of(p)) /\ Cardinality(Of(p)) \in Nat
         /\ Cardinality(Of(p)) = 0 => Of(p) = {}
<1>1. Len(log) \in Nat /\ Of(p) \subseteq 1 .. Len(log)
  BY DEF PrintTypes, Of
<1>2. IsFiniteSet(1 .. Len(log))
  BY <1>1, FS_Interval
<1>3. IsFiniteSet(Of(p))
  BY <1>1, <1>2, FS_Subset
<1>4. QED
  BY <1>1, <1>3, FS_CardinalityType, FS_EmptySet

LEMMA OneMore ==
  ASSUME PrintTypes, NEW who \in Who, log' = Append(log, who)
  PROVE  /\ log' \in Seq(Who) /\ Len(log') = Len(log) + 1 /\ Len(log) \in Nat
         /\ Of(who)' = Of(who) \cup {Len(log) + 1}
         /\ Cardinality(Of(who)') = Cardinality(Of(who)) + 1
         /\ \A p \in Who : p # who => Of(p)' = Of(p)
<1>1. log' \in Seq(Who) /\ Len(log') = Len(log) + 1 /\ Len(log) \in Nat
  BY DEF PrintTypes
<1>2. /\ \A i \in 1 .. Len(log) : log'[i] = log[i]
      /\ log'[Len(log) + 1] = who
  BY DEF PrintTypes
<1>3. ASSUME NEW p \in Who PROVE Of(p)' = Of(p) \cup (IF p = who THEN {Len(log) + 1} ELSE {})
  <2>1. Of(p)' = {i \in 1 .. Len(log) + 1 : log'[i] = p}
    BY <1>1 DEF Of
  <2>2. \A i : i \in 1 .. Len(log) + 1 <=> i \in 1 .. Len(log) \/ i = Len(log) + 1
    BY <1>1
  <2>3. QED
    BY <1>2, <2>1, <2>2 DEF Of
<1>4. Len(log) + 1 \notin Of(who)
  BY <1>1 DEF Of
<1>5. Of(who)' = Of(who) \cup {Len(log) + 1}
  BY <1>3
<1>6. Cardinality(Of(who) \cup {Len(log) + 1}) = Cardinality(Of(who)) + 1
  BY <1>4, OfIsFinite, FS_AddElement
<1>7. QED
  BY <1>1, <1>3, <1>5, <1>6

(* A piece that is at the end grows in one piece.                          *)
LEMMA Grows ==
  ASSUME PrintTypes, NEW who \in Who, log' = Append(log, who), AtEnd(Of(who))
  PROVE  InPiece(Of(who))' /\ AtEnd(Of(who))'
<1>1. PICK l \in Nat : l = Len(log) /\ Len(log') = l + 1
  BY OneMore
<1>2. PICK S \in SUBSET (1 .. l) : S = Of(who) /\ Of(who)' = S \cup {l + 1}
  BY <1>1, OneMore, OfIsFinite
<1>3. \A i \in S, j \in 1 .. l : i < j => j \in S
  BY <1>1, <1>2 DEF AtEnd
<1>4. \A i \in S \cup {l + 1}, j \in 1 .. l + 1 : i < j => j \in S \cup {l + 1}
  BY <1>3
<1>5. \A i, k \in S \cup {l + 1}, j \in 1 .. l + 1 : i < j /\ j < k => j \in S \cup {l + 1}
  BY <1>4
<1>6. QED
  BY <1>1, <1>2, <1>4, <1>5 DEF InPiece, AtEnd

(* What others print does not come between what is there.                  *)
LEMMA OthersAfter ==
  ASSUME PrintTypes, NEW who \in Who, log' = Append(log, who), NEW p \in Who, p # who, InPiece(Of(p))
  PROVE  InPiece(Of(p))'
<1>1. PICK l \in Nat : l = Len(log) /\ Len(log') = l + 1
  BY OneMore
<1>2. PICK S \in SUBSET (1 .. l) : S = Of(p) /\ Of(p)' = S
  BY <1>1, OneMore, OfIsFinite
<1>3. \A i, k \in S, j \in 1 .. l : i < j /\ j < k => j \in S
  BY <1>1, <1>2 DEF InPiece
<1>4. \A i, k \in S, j \in 1 .. l + 1 : i < j /\ j < k => j \in S
  BY <1>3
<1>5. QED
  BY <1>1, <1>2, <1>4 DEF InPiece

LEMMA EndIsInPiece == ASSUME PrintTypes, NEW p, AtEnd(Of(p)) PROVE InPiece(Of(p))
<1>1. Len(log) \in Nat
  BY DEF PrintTypes
<1>2. QED
  BY <1>1 DEF InPiece, AtEnd, Of
-----------------------------------------------------------------------------
(* cprintf() of the programs and of the kernel.                            *)
LEMMA SamePrint ==
  ASSUME PrintInv, UNCHANGED <<print, cputs, log>>, mode' = "user" => mode = "user"
  PROVE  PrintInv'
<1>1. \A p : Of(p)' = Of(p) /\ Silenced(p)' = Silenced(p)
  BY DEF Of, Silenced
<1>2. ProgramWhole'
  BY <1>1 DEF PrintInv, ProgramWhole, InPiece, AtEnd
<1>3. MonitorWhole'
  BY <1>1 DEF PrintInv, MonitorWhole, AtEnd
<1>4. QED
  BY <1>2, <1>3 DEF PrintInv, PrintTypes

(* The kernel prints for itself once it is in the monitor.                 *)
LEMMA KernelPrint ==
  ASSUME PrintInv, ReaderInv, UNCHANGED <<print, cputs>>, log' = Append(log, "kernel"),
         mode # "user" \/ Free, mode' # "user"
  PROVE  PrintInv'
<1>1. cputs.left = 0 /\ "kernel" \in Who /\ PrintTypes
  BY DEF ReaderInv, OneThing, Free, Who, PrintInv
<1>2. PrintTypes'
  BY <1>1, OneMore DEF PrintTypes
<1>3. MonitorWhole'
  <2>1. AtEnd(Of("kernel"))'
    BY <1>1, Grows DEF PrintInv, MonitorWhole
  <2>2. QED
    BY <1>1, <2>1 DEF MonitorWhole
<1>4. ASSUME NEW p \in Prog
      PROVE  /\ Of(p)' = Of(p) /\ (Silenced(p)' <=> Silenced(p))
             /\ InPiece(Of(p)) => InPiece(Of(p))'
  <2>1. p \in Who /\ p # "kernel"
    BY ConsoleAssumption DEF Who
  <2>2. QED
    BY <1>1, <2>1, OneMore, OthersAfter DEF Silenced
<1>5. ProgramWhole'
  BY <1>1, <1>4 DEF PrintInv, ProgramWhole
<1>6. QED
  BY <1>2, <1>3, <1>5 DEF PrintInv

LEMMA PutchPrint == ASSUME PrintInv, NEW p \in Prog, Putch(p) PROVE PrintInv'
<1>1. /\ print \in [Prog -> [left : Nat, idx : 0 .. PRINTBUF - 1]]
      /\ print[p].left > 0 /\ print[p].idx < PRINTBUF - 1
      /\ print' = [print EXCEPT ![p] = [left |-> print[p].left - 1, idx |-> print[p].idx + 1]]
      /\ log' = log /\ cputs' = cputs /\ mode' = mode
  BY DEF Putch, PrintInv, PrintTypes, reader
<1>2. print[p].left - 1 \in Nat /\ print[p].idx + 1 \in 0 .. PRINTBUF - 1
  BY <1>1, Sizes
<1>3. print' \in [Prog -> [left : Nat, idx : 0 .. PRINTBUF - 1]]
  BY <1>1, <1>2
<1>4. PrintTypes'
  BY <1>1, <1>3 DEF PrintInv, PrintTypes
<1>5. ASSUME NEW q \in Prog PROVE Of(q)' = Of(q) /\ (Silenced(q) => q # p /\ Silenced(q)')
  BY <1>1 DEF Of, Silenced
<1>6. ASSUME NEW q \in Prog
      PROVE  (InPiece(Of(q))' <=> InPiece(Of(q))) /\ (AtEnd(Of(q))' <=> AtEnd(Of(q)))
  BY <1>1 DEF InPiece, AtEnd, Of
<1>7. ProgramWhole'
  BY <1>1, <1>5, <1>6 DEF PrintInv, ProgramWhole
<1>8. MonitorWhole'
  BY <1>1 DEF PrintInv, MonitorWhole, AtEnd, Of
<1>9. QED
  BY <1>4, <1>7, <1>8 DEF PrintInv

(* A string is handed to the kernel: it is all there is to print, or as    *)
(* much as the buffer holds.                                               *)
LEMMA SysCputsPrint == ASSUME PrintInv, NEW p \in Prog, SysCputs(p) PROVE PrintInv'
<1>1. /\ print \in [Prog -> [left : Nat, idx : 0 .. PRINTBUF - 1]]
      /\ print' = [print EXCEPT ![p].idx = 0] /\ cputs' = [who |-> p, left |-> print[p].idx]
      /\ log' = log /\ mode = "user" /\ mode' = "user" /\ cputs.left = 0
      /\ print[p].idx = PRINTBUF - 1 \/ (print[p].idx > 0 /\ print[p].left = 0)
  BY DEF SysCputs, Flush, Free, PrintInv, PrintTypes, reader
<1>2. /\ print[p].idx \in 0 .. PRINTBUF - 1 /\ print[p].idx > 0
      /\ print'[p].idx = 0 /\ print'[p].left = print[p].left
      /\ cputs'.who = p /\ cputs'.left = print[p].idx
      /\ \A q \in Prog : q # p => print'[q] = print[q]
  BY <1>1, Sizes
<1>3. PrintTypes'
  <2>1. print' \in [Prog -> [left : Nat, idx : 0 .. PRINTBUF - 1]]
    BY <1>1, Sizes
  <2>2. cputs' \in [who : Who, left : 0 .. PRINTBUF - 1]
    BY <1>1, <1>2 DEF Who
  <2>3. QED
    BY <1>1, <2>1, <2>2 DEF PrintInv, PrintTypes
<1>4. ASSUME NEW q
      PROVE  /\ Of(q)' = Of(q) /\ (InPiece(Of(q))' <=> InPiece(Of(q)))
             /\ AtEnd(Of(q))' <=> AtEnd(Of(q))
  BY <1>1 DEF InPiece, AtEnd, Of
<1>5. PICK n \in Nat : n = Cardinality(Of(p))
  BY OfIsFinite DEF PrintInv
<1>6. n < PRINTBUF - 1 => Of(p) = {} /\ n = 0
  <2>1. ~Silenced(p)
    BY <1>2 DEF Silenced
  <2>2. n < PRINTBUF - 1 => n = 0
    BY <1>1, <1>5, <2>1 DEF PrintInv, ProgramWhole
  <2>3. QED
    BY <1>5, <2>2, OfIsFinite DEF PrintInv
<1>7. /\ n < PRINTBUF => InPiece(Of(p))'
      /\ n < PRINTBUF - 1 =>
           AtEnd(Of(p))' /\ (n + cputs'.left >= PRINTBUF - 1 \/ Silenced(p)')
  <2>1. n < PRINTBUF => InPiece(Of(p))'
    BY <1>4, <1>5 DEF PrintInv, ProgramWhole
  <2>2. n < PRINTBUF - 1 => AtEnd(Of(p))'
    BY <1>4, <1>6 DEF AtEnd
  <2>3. n < PRINTBUF - 1 => n + cputs'.left >= PRINTBUF - 1 \/ Silenced(p)'
    BY <1>1, <1>2, <1>6, Sizes DEF Silenced
  <2>4. QED
    BY <2>1, <2>2, <2>3
<1>8. ASSUME NEW q \in Prog, q # p
      PROVE  LET m == Cardinality(Of(q))' IN
             /\ m < PRINTBUF => InPiece(Of(q))'
             /\ 0 < m /\ m < PRINTBUF - 1 => Silenced(q)'
  <2>1. Silenced(q)' <=> Silenced(q)
    BY <1>2, <1>8 DEF Silenced
  <2>2. QED
    BY <1>1, <1>4, <2>1 DEF PrintInv, ProgramWhole
<1>9. ProgramWhole'
  <2> SUFFICES ASSUME NEW q \in Prog
      PROVE  LET m == Cardinality(Of(q))' IN
             /\ m < PRINTBUF => InPiece(Of(q))'
             /\ cputs'.left > 0 /\ cputs'.who = q /\ m < PRINTBUF - 1 =>
                  AtEnd(Of(q))' /\ (m + cputs'.left >= PRINTBUF - 1 \/ Silenced(q)')
             /\ ~(cputs'.left > 0 /\ cputs'.who = q) /\ 0 < m /\ m < PRINTBUF - 1 => Silenced(q)'
    BY DEF ProgramWhole
  <2>1. CASE q = p
    BY <1>2, <1>4, <1>5, <1>7, <2>1
  <2>2. CASE q # p
    BY <1>2, <1>8, <2>2
  <2>3. QED
    BY <2>1, <2>2
<1>10. MonitorWhole'
  BY <1>1, <1>2, <1>4 DEF PrintInv, MonitorWhole
<1>11. QED
  BY <1>3, <1>9, <1>10 DEF PrintInv

(* The kernel prints one character of it.                                  *)
LEMMA CputcharPrint == ASSUME PrintInv, ReaderInv, Cputchar PROVE PrintInv'
<1>1. PICK p \in Prog : p = cputs.who
  BY DEF Cputchar, PrintInv, MonitorWhole
<1>2. /\ cputs \in [who : Who, left : 0 .. PRINTBUF - 1] /\ cputs.left > 0
      /\ cputs' = [cputs EXCEPT !.left = cputs.left - 1]
      /\ log' = Append(log, p) /\ print' = print /\ mode' = mode /\ p \in Who
  BY <1>1 DEF Cputchar, Put, PrintInv, PrintTypes, reader, Who
<1>3. cputs'.who = p /\ cputs'.left = cputs.left - 1 /\ cputs' \in [who : Who, left : 0 .. PRINTBUF - 1]
  BY <1>1, <1>2, Sizes
<1>4. mode = "user"
  BY <1>2 DEF ReaderInv, OneThing
<1>5. PrintTypes'
  BY <1>2, <1>3, OneMore DEF PrintInv, PrintTypes
<1>6. PICK n \in Nat : n = Cardinality(Of(p)) /\ Cardinality(Of(p)') = n + 1
  BY <1>2, OneMore, OfIsFinite DEF PrintInv
<1>7. \A q \in Prog : Silenced(q)' <=> Silenced(q)
  BY <1>2 DEF Silenced
<1>8. n < PRINTBUF - 1 => /\ InPiece(Of(p))' /\ AtEnd(Of(p))'
                          /\ n + cputs.left >= PRINTBUF - 1 \/ Silenced(p)
  <2>1. n < PRINTBUF - 1 => AtEnd(Of(p)) /\ (n + cputs.left >= PRINTBUF - 1 \/ Silenced(p))
    BY <1>1, <1>2, <1>6 DEF PrintInv, ProgramWhole
  <2>2. QED
    BY <1>2, <2>1, Grows DEF PrintInv
<1>9. ASSUME NEW q \in Who, q # p PROVE Of(q)' = Of(q) /\ (InPiece(Of(q)) => InPiece(Of(q))')
  BY <1>2, <1>9, OneMore, OthersAfter DEF PrintInv
<1>10. ProgramWhole'
  <2> SUFFICES ASSUME NEW q \in Prog
      PROVE  LET m == Cardinality(Of(q)') IN
             /\ m < PRINTBUF => InPiece(Of(q))'
             /\ cputs'.left > 0 /\ cputs'.who = q /\ m < PRINTBUF - 1 =>
                  AtEnd(Of(q))' /\ (m + cputs'.left >= PRINTBUF - 1 \/ Silenced(q)')
             /\ ~(cputs'.left > 0 /\ cputs'.who = q) /\ 0 < m /\ m < PRINTBUF - 1 => Silenced(q)'
    BY DEF ProgramWhole
  <2>1. CASE q = p
    <3>1. PICK l \in 0 .. PRINTBUF - 1 : l = cputs.left /\ l > 0 /\ cputs'.left = l - 1
      BY <1>2, <1>3
    <3>2. n + 1 < PRINTBUF <=> n < PRINTBUF - 1
      BY Sizes
    <3>3. n + 1 < PRINTBUF - 1 => n < PRINTBUF - 1
      BY Sizes
    <3>4. n < PRINTBUF - 1 => InPiece(Of(q))' /\ AtEnd(Of(q))' /\ (n + l >= PRINTBUF - 1 \/ Silenced(q)')
      BY <1>7, <1>8, <2>1, <3>1
    <3>5. n + l >= PRINTBUF - 1 <=> (n + 1) + (l - 1) >= PRINTBUF - 1
      BY <3>1, Sizes
    <3>6. ~(cputs'.left > 0) => l = 1
      BY <3>1
    <3>7. n + 1 < PRINTBUF - 1 /\ l = 1 => ~(n + l >= PRINTBUF - 1)
      BY Sizes
    <3>8. Cardinality(Of(q)') = n + 1 /\ cputs'.who = q
      BY <1>3, <1>6, <2>1
    <3>9. QED
      BY <3>1, <3>2, <3>3, <3>4, <3>5, <3>6, <3>7, <3>8
  <2>2. CASE q # p
    <3>1. Of(q)' = Of(q) /\ (InPiece(Of(q)) => InPiece(Of(q))')
      BY <1>9, <2>2 DEF Who
    <3>2. QED
      BY <1>1, <1>3, <1>7, <2>2, <3>1 DEF PrintInv, ProgramWhole
  <2>3. QED
    BY <2>1, <2>2
<1>11. MonitorWhole'
  <2>1. Of("kernel")' = {}
    BY <1>4, <1>9, ConsoleAssumption DEF PrintInv, MonitorWhole, Who
  <2>2. QED
    BY <1>3, <2>1 DEF MonitorWhole, AtEnd
<1>12. QED
  BY <1>5, <1>10, <1>11 DEF PrintInv
-----------------------------------------------------------------------------
(* The console as a whole.  Every step of the drivers leaves the readers   *)
(* and the printers alone, ...                                             *)
LEMMA DeviceStep ==
  ASSUME ConsoleInv, UNCHANGED reader, UNCHANGED output, InputInv', RingInv', OneThing'
  PROVE  ConsoleInv'
<1>1. ScreenInv'
  BY SameScreen DEF ConsoleInv, reader, output
<1>2. ReaderInv'
  BY SameReader DEF ConsoleInv
<1>3. PrintInv'
  BY SamePrint DEF ConsoleInv, reader, output
<1>4. QED
  BY <1>1, <1>2, <1>3 DEF ConsoleInv

LEMMA ArrivesStep == ConsoleInv /\ Arrives => ConsoleInv'
<1> SUFFICES ASSUME ConsoleInv, Arrives PROVE ConsoleInv'
  OBVIOUS
<1> USE DEF ConsoleInv
<1>1. InputInv'
  BY KeyDownInput, KeyUpInput, ArriveInput, SerialLineInput DEF Arrives
<1>2. UNCHANGED <<poll, cons, queue>> /\ UNCHANGED reader /\ UNCHANGED output
  BY DEF Arrives, KeyDown, KeyUp, Sends, Arrive, SerialLine
<1>3. RingInv'
  BY <1>2, SameRing
<1>4. OneThing'
  BY <1>2 DEF ReaderInv, OneThing, reader, output
<1>5. QED
  BY <1>1, <1>2, <1>3, <1>4, DeviceStep

LEMMA StartPollStep == ConsoleInv /\ StartPoll => ConsoleInv'
<1> SUFFICES ASSUME ConsoleInv, StartPoll PROVE ConsoleInv'
  OBVIOUS
<1> USE DEF ConsoleInv
<1>1. InputInv'
  BY PollInput DEF StartPoll, input
<1>2. RingInv'
  BY SameRing DEF StartPoll
<1>3. OneThing'
  BY DEF StartPoll, Free, OneThing, reader, output
<1>4. QED
  BY <1>1, <1>2, <1>3, DeviceStep DEF StartPoll

LEMMA SerialIntrStep == ConsoleInv /\ SerialIntr => ConsoleInv'
<1> SUFFICES ASSUME ConsoleInv, SerialIntr PROVE ConsoleInv'
  OBVIOUS
<1> USE DEF ConsoleInv
<1>1. InputInv' /\ RingInv'
  BY SerialIntrInput, SerialIntrRing
<1>2. OneThing'
  BY DEF SerialIntr, ReaderInv, OneThing, reader, output
<1>3. QED
  BY <1>1, <1>2, DeviceStep DEF SerialIntr

LEMMA SerialDoneStep == ConsoleInv /\ SerialDone => ConsoleInv'
<1> SUFFICES ASSUME ConsoleInv, SerialDone PROVE ConsoleInv'
  OBVIOUS
<1> USE DEF ConsoleInv
<1>1. InputInv'
  BY PollInput DEF SerialDone, input
<1>2. RingInv'
  BY SameRing DEF SerialDone
<1>3. OneThing'
  BY DEF SerialDone, ReaderInv, OneThing, reader, output
<1>4. QED
  BY <1>1, <1>2, <1>3, DeviceStep DEF SerialDone

LEMMA KbdIntrStep == ConsoleInv /\ KbdIntr => ConsoleInv'
<1> SUFFICES ASSUME ConsoleInv, KbdIntr PROVE ConsoleInv'
  OBVIOUS
<1> USE DEF ConsoleInv
<1>1. InputInv' /\ RingInv'
  BY KbdIntrInput, KbdIntrRing
<1>2. OneThing'
  BY DEF KbdIntr, ReaderInv, OneThing, reader, output
<1>3. QED
  BY <1>1, <1>2, DeviceStep DEF KbdIntr

(* ... and so does a program that takes a character.                       *)
LEMMA GetcParts == ASSUME ConsoleInv, NEW c, ConsGetc(c), UNCHANGED input PROVE InputInv' /\ RingInv'
<1>1. InputInv'
  BY PollInput DEF ConsoleInv, ConsGetc, input
<1>2. RingInv'
  BY ConsGetcRing DEF ConsoleInv
<1>3. QED
  BY <1>1, <1>2

LEMMA SysCgetcStep == ConsoleInv /\ SysCgetc => ConsoleInv'
<1> SUFFICES ASSUME ConsoleInv, SysCgetc PROVE ConsoleInv'
  OBVIOUS
<1>1. PICK c \in Char \cup {NO} : ConsGetc(c) /\ UNCHANGED input
  BY DEF SysCgetc
<1>2. InputInv' /\ RingInv'
  BY <1>1, GetcParts
<1>3. OneThing'
  BY <1>1 DEF SysCgetc, ConsGetc, ConsoleInv, ReaderInv, OneThing, reader, output
<1>4. QED
  BY <1>2, <1>3, DeviceStep DEF SysCgetc
-----------------------------------------------------------------------------
(* readline() takes a character.                                           *)
LEMMA ReadEraseStep == ConsoleInv /\ ReadErase => ConsoleInv'
<1> SUFFICES ASSUME ConsoleInv, ReadErase PROVE ConsoleInv'
  OBVIOUS
<1>1. PICK c : Reads(c)
  BY DEF ReadErase
<1>2. InputInv' /\ RingInv'
  BY <1>1, GetcParts DEF Reads
<1>3. ScreenInv' /\ ReaderInv'
  BY ReadEraseScreen, ReadEraseReader DEF ConsoleInv
<1>4. PrintInv'
  BY <1>1, KernelPrint DEF ConsoleInv, ReadErase, Reads, Put
<1>5. QED
  BY <1>2, <1>3, <1>4 DEF ConsoleInv

LEMMA ReadTextStep == ConsoleInv /\ ReadText => ConsoleInv'
<1> SUFFICES ASSUME ConsoleInv, ReadText PROVE ConsoleInv'
  OBVIOUS
<1>1. PICK c : Reads(c)
  BY DEF ReadText
<1>2. InputInv' /\ RingInv'
  BY <1>1, GetcParts DEF Reads
<1>3. ScreenInv' /\ ReaderInv'
  BY ReadTextScreen, ReadTextReader DEF ConsoleInv
<1>4. PrintInv'
  BY <1>1, KernelPrint DEF ConsoleInv, ReadText, Reads, Put
<1>5. QED
  BY <1>2, <1>3, <1>4 DEF ConsoleInv

LEMMA ReadIgnoredStep == ConsoleInv /\ ReadIgnored => ConsoleInv'
<1> SUFFICES ASSUME ConsoleInv, ReadIgnored PROVE ConsoleInv'
  OBVIOUS
<1>1. PICK c : Reads(c)
  BY DEF ReadIgnored
<1>2. InputInv' /\ RingInv'
  BY <1>1, GetcParts DEF Reads
<1>3. UNCHANGED reader /\ UNCHANGED output /\ poll' = "none" /\ mode = "readline"
  BY <1>1 DEF ReadIgnored, Reads, ConsGetc, output
<1>4. OneThing'
  BY <1>3 DEF ConsoleInv, ReaderInv, OneThing, reader, output
<1>5. QED
  BY <1>2, <1>3, <1>4, DeviceStep

LEMMA ReadEnterStep == ConsoleInv /\ ReadEnter => ConsoleInv'
<1> SUFFICES ASSUME ConsoleInv, ReadEnter PROVE ConsoleInv'
  OBVIOUS
<1>1. PICK c : Reads(c)
  BY DEF ReadEnter
<1>2. InputInv' /\ RingInv'
  BY <1>1, GetcParts DEF Reads
<1>3. ScreenInv' /\ ReaderInv'
  BY ReadEnterScreen, ReadEnterReader DEF ConsoleInv
<1>4. PrintInv'
  BY <1>1, KernelPrint DEF ConsoleInv, ReadEnter, Reads, Put
<1>5. QED
  BY <1>2, <1>3, <1>4 DEF ConsoleInv
-----------------------------------------------------------------------------
(* The monitor and the programs, which leave the devices alone.            *)
LEMMA SameDevices == ASSUME ConsoleInv, UNCHANGED input, UNCHANGED devices PROVE InputInv' /\ RingInv'
<1>1. InputInv'
  BY PollInput DEF ConsoleInv, InputInv, InputTypes, input, devices
<1>2. RingInv'
  BY SameRing DEF ConsoleInv, devices
<1>3. QED
  BY <1>1, <1>2

LEMMA MonitorStep == ConsoleInv /\ Monitor => ConsoleInv'
<1> SUFFICES ASSUME ConsoleInv, Monitor PROVE ConsoleInv'
  OBVIOUS
<1>1. InputInv' /\ RingInv'
  BY SameDevices DEF Monitor
<1>2. ScreenInv' /\ ReaderInv'
  BY MonitorScreen, MonitorReader DEF ConsoleInv
<1>3. PrintInv'
  BY KernelPrint DEF ConsoleInv, Monitor, Put
<1>4. QED
  BY <1>1, <1>2, <1>3 DEF ConsoleInv

LEMMA NextWordStep == ConsoleInv /\ NextWord => ConsoleInv'
<1> SUFFICES ASSUME ConsoleInv, NextWord PROVE ConsoleInv'
  OBVIOUS
<1>1. InputInv' /\ RingInv'
  BY SameDevices DEF NextWord
<1>2. ScreenInv' /\ ReaderInv'
  BY SameScreen, NextWordReader DEF ConsoleInv, NextWord, output
<1>3. PrintInv'
  BY SamePrint DEF ConsoleInv, NextWord, output
<1>4. QED
  BY <1>1, <1>2, <1>3 DEF ConsoleInv

LEMMA CommandStep == ConsoleInv /\ (RunCommand \/ TooManyArguments) => ConsoleInv'
<1> SUFFICES ASSUME ConsoleInv, RunCommand \/ TooManyArguments PROVE ConsoleInv'
  OBVIOUS
<1>1. Prompts /\ mode = "command"
  BY DEF RunCommand, TooManyArguments
<1>2. InputInv' /\ RingInv'
  BY <1>1, SameDevices DEF Prompts
<1>3. ScreenInv' /\ ReaderInv'
  BY <1>1, PromptsScreen, RunCommandReader, TooManyArgumentsReader DEF ConsoleInv
<1>4. PrintInv'
  BY <1>1, KernelPrint DEF ConsoleInv, Prompts, Put
<1>5. QED
  BY <1>2, <1>3, <1>4 DEF ConsoleInv

LEMMA PutchStep == ASSUME ConsoleInv, NEW p \in Prog, Putch(p) PROVE ConsoleInv'
<1>1. InputInv' /\ RingInv'
  BY SameDevices DEF Putch
<1>2. ScreenInv'
  BY SameScreen DEF ConsoleInv, Putch, reader
<1>3. ReaderInv'
  <2>1. OneThing'
    BY DEF ConsoleInv, ReaderInv, OneThing, Putch, reader, devices
  <2>2. QED
    BY <2>1, SameReader DEF ConsoleInv, Putch
<1>4. PrintInv'
  BY PutchPrint DEF ConsoleInv
<1>5. QED
  BY <1>1, <1>2, <1>3, <1>4 DEF ConsoleInv

LEMMA SysCputsStep == ASSUME ConsoleInv, NEW p \in Prog, SysCputs(p) PROVE ConsoleInv'
<1>1. InputInv' /\ RingInv'
  BY SameDevices DEF SysCputs
<1>2. ScreenInv'
  BY SameScreen DEF ConsoleInv, SysCputs, reader
<1>3. ReaderInv' /\ PrintInv'
  BY SysCputsReader, SysCputsPrint DEF ConsoleInv
<1>4. QED
  BY <1>1, <1>2, <1>3 DEF ConsoleInv

LEMMA CputcharStep == ConsoleInv /\ Cputchar => ConsoleInv'
<1> SUFFICES ASSUME ConsoleInv, Cputchar PROVE ConsoleInv'
  OBVIOUS
<1>1. InputInv' /\ RingInv'
  BY SameDevices DEF Cputchar
<1>2. ScreenInv' /\ ReaderInv' /\ PrintInv'
  BY CputcharScreen, CputcharReader, CputcharPrint DEF ConsoleInv
<1>3. QED
  BY <1>1, <1>2 DEF ConsoleInv
-----------------------------------------------------------------------------
LEMMA ConsoleInvInit == Init => ConsoleInv
<1> SUFFICES ASSUME machine \in Machines, ConsoleInit(machine.strokes, machine.lengths) PROVE ConsoleInv
  BY DEF Init, BootInit
<1>1. /\ strokes \in [left : Nat, keys : SUBSET Key, ups : SUBSET Key, chars : SUBSET Char]
      /\ machine.lengths \in [Prog -> Nat]
  BY ConsoleOfMachines DEF ConsoleInit
<1>2. InputInv
  <2>1. InputTypes
    BY <1>1, Sizes DEF ConsoleInit, InputTypes
  <2>2. Bytes = <<>> /\ shift = {}
    BY DEF ConsoleInit, Bytes
  <2>3. QED
    BY <2>1, <2>2 DEF InputInv, KeysWhole, ShiftFollows
<1>3. RingInv
  <2>1. /\ cons = [buf |-> [i \in 0 .. CONSBUFSIZE - 1 |-> NO], rpos |-> 0, wpos |-> 0]
        /\ queue = <<>>
    BY DEF ConsoleInit
  <2>2. RingTypes
    BY <2>1, Sizes DEF RingTypes
  <2>3. RingHolds
    BY <2>1, Sizes DEF RingHolds, Round
  <2>4. QED
    BY <2>2, <2>3 DEF RingInv
<1>4. ScreenInv
  <2>1. crt = [cells |-> [i \in 0 .. CRT_SIZE - 1 |-> Blank], pos |-> 0] /\ mode = "user"
    BY DEF ConsoleInit
  <2>2. ScreenTypes /\ BlankAfter
    BY <2>1, BlankIsGlyph, ScreenSize, Sizes DEF ScreenTypes, BlankAfter
  <2>3. QED
    BY <2>1, <2>2 DEF ScreenInv, LineBefore
<1>5. ReaderInv
  BY NoWords, Sizes DEF ConsoleInit, ReaderInv, ReaderTypes, OneThing
<1>6. PrintInv
  <2>1. /\ print = [p \in Prog |-> [left |-> machine.lengths[p], idx |-> 0]]
        /\ cputs = [who |-> "kernel", left |-> 0] /\ log = <<>> /\ Len(log) = 0
    BY DEF ConsoleInit
  <2>2. print \in [Prog -> [left : Nat, idx : 0 .. PRINTBUF - 1]]
    BY <1>1, <2>1, Sizes
  <2>3. PrintTypes
    BY <2>1, <2>2, Sizes DEF PrintTypes, Who
  <2>4. \A p : Of(p) = {}
    BY <2>1 DEF Of
  <2>5. ProgramWhole
    BY <2>1, <2>4, FS_EmptySet DEF ProgramWhole, InPiece
  <2>6. MonitorWhole
    BY <2>1, <2>4 DEF MonitorWhole, AtEnd
  <2>7. QED
    BY <2>3, <2>5, <2>6 DEF PrintInv
<1>7. QED
  BY <1>2, <1>3, <1>4, <1>5, <1>6 DEF ConsoleInv

(* Nothing that Boot does touches the console.                             *)
LEMMA ConsoleInvNext == ConsoleInv /\ [Next]_vars => ConsoleInv'
<1> SUFFICES ASSUME ConsoleInv, [Next]_vars PROVE ConsoleInv'
  OBVIOUS
<1>1. CASE UNCHANGED consoleVars
  <2>1. InputInv' /\ RingInv'
    BY <1>1, SameDevices DEF consoleVars, input, devices
  <2>2. OneThing' /\ UNCHANGED reader /\ UNCHANGED output
    BY <1>1 DEF consoleVars, ConsoleInv, ReaderInv, OneThing, reader, output
  <2>3. QED
    BY <2>1, <2>2, DeviceStep
<1>2. CASE InKernel
  BY <1>2, StartPollStep, SerialIntrStep, SerialDoneStep, KbdIntrStep,
     MonitorStep, ReadEraseStep, ReadTextStep, ReadIgnoredStep, ReadEnterStep,
     NextWordStep, CommandStep, SysCgetcStep, SysCputsStep, CputcharStep
     DEF InKernel
<1>3. CASE \E p \in Prog : Putch(p)
  BY <1>3, PutchStep
<1>4. CASE Arrives
  BY <1>4, ArrivesStep
<1>5. QED
  BY <1>1, <1>2, <1>3, <1>4 DEF Next, vars, Computes, Interrupted, Serves, Prints, Typed

LEMMA ConsoleInvAlways == Spec => []ConsoleInv
BY ConsoleInvInit, ConsoleInvNext, PTL DEF Spec
-----------------------------------------------------------------------------
(* What the invariant is for.                                              *)

(* Positions in the ring, on the screen and in the buffers of readline(),  *)
(* runcmd() and cprintf() stay inside, and so do the indices of CPUs and   *)
(* stacks: for all sizes, however many keys are typed and lines printed.   *)
THEOREM MachineTypesCorrect == Spec => []TypeOK
<1>1. ConsoleInv => ConsoleTypeOK
  <2> SUFFICES ASSUME ConsoleInv PROVE ConsoleTypeOK
    OBVIOUS
  <2> USE Sizes
  <2>1. /\ held \subseteq Key /\ wire \in Seq(Byte) /\ kbd \in Seq(Byte) /\ serial \in Seq(Char)
        /\ Len(kbd) <= DEVBUF /\ poll \in {"none", "serial", "keyboard"}
    BY DEF ConsoleInv, InputInv, InputTypes
  <2>2. shift \subseteq {"SHIFT", "CTL", "CAPSLOCK", "E0ESC"}
    BY DEF ConsoleInv, InputInv, InputTypes, Bits
  <2>3. /\ cons \in [buf : [0 .. CONSBUFSIZE - 1 -> Char \cup {NO}],
                     rpos : 0 .. CONSBUFSIZE - 1, wpos : 0 .. CONSBUFSIZE - 1]
        /\ queue \in Seq(Char)
    BY DEF ConsoleInv, RingInv, RingTypes
  <2>4. crt.pos \in 0 .. CRT_SIZE - 1 /\ DOMAIN crt.cells = 0 .. CRT_SIZE - 1
    BY DEF ConsoleInv, ScreenInv, ScreenTypes
  <2>5. /\ mode \in {"user", "readline", "command"}
        /\ line \in Seq(Char) /\ Len(line) < BUFLEN /\ rest \in Seq(Char)
        /\ argv \in Seq(Words) /\ Len(argv) <= MAXARGS
    BY DEF ConsoleInv, ReaderInv, ReaderTypes
  <2>6. Len(argv) < MAXARGS + 1
    BY <2>5
  <2>7. /\ \A p \in Prog : print[p].left \in Nat /\ print[p].idx \in 0 .. PRINTBUF - 1
        /\ cputs.left \in 0 .. PRINTBUF - 1
    BY DEF ConsoleInv, PrintInv, PrintTypes
  <2>8. QED
    BY <2>1, <2>2, <2>3, <2>4, <2>5, <2>6, <2>7 DEF ConsoleTypeOK
<1>2. QED
  BY ConsoleInvAlways, BootTypesCorrect, <1>1, PTL DEF TypeOK

(* kbd_proc_data(): once every byte has been looked at, a shift is that of *)
(* a key that is down and no second byte is waited for.                    *)
THEOREM ShiftNeverSticks == Spec => []NoStuckShift
<1>1. ConsoleInv => NoStuckShift
  <2> SUFFICES ASSUME ConsoleInv, kbd = <<>>, wire = <<>>, NEW bit \in shift
               PROVE  bit \in {"CAPSLOCK"} \cup UNION {shiftcode(key.code, key.ext) : key \in held}
    BY DEF NoStuckShift
  <2>1. shift \in SUBSET Bits /\ Bytes = <<>>
    BY DEF ConsoleInv, InputInv, InputTypes, Bytes
  <2>2. "E0ESC" \notin shift
    BY <2>1 DEF ConsoleInv, InputInv, KeysWhole
  <2>3. CASE bit = "CAPSLOCK"
    BY <2>3
  <2>4. CASE bit \in {"SHIFT", "CTL"}
    <3>1. HeldDown(bit)
      BY <2>1, <2>4 DEF ConsoleInv, InputInv, ShiftFollows
    <3>2. QED
      BY <3>1 DEF HeldDown
  <2>5. QED
    BY <2>1, <2>2, <2>3, <2>4 DEF Bits
<1>2. QED
  BY ConsoleInvAlways, <1>1, PTL

(* cons_intr() and cons_getc(): from rpos to wpos the ring holds what was  *)
(* typed and not read, in order; only what fills it loses a ring full.     *)
THEOREM InputStaysInOrder == Spec => []InputInOrder
<1>1. ConsoleInv => InputInOrder
  BY RingInOrder DEF ConsoleInv, RingInv
<1>2. QED
  BY ConsoleInvAlways, <1>1, PTL

(* readline() and cga_putc(): what will be returned stands before the      *)
(* cursor, and nothing after it, over line ends, erasing and scrolling.    *)
THEOREM ScreenShowsTheLine == Spec => []ScreenShowsLine
<1>1. ConsoleInv => ScreenShowsLine
  <2> SUFFICES ASSUME ConsoleInv, mode = "readline" PROVE
        /\ \A i \in DOMAIN line :
             LET cell == crt.pos - 1 - (Len(line) - i) IN cell >= 0 => crt.cells[cell] = line[i]
        /\ \A cell \in crt.pos .. CRT_SIZE - 1 : crt.cells[cell] = Blank
    BY DEF ScreenShowsLine
  <2>1. DOMAIN line = 1 .. Len(line)
    BY DEF ConsoleInv, ReaderInv, ReaderTypes
  <2>2. \A i \in DOMAIN line :
          crt.pos - 1 - (Len(line) - i) >= 0 => crt.cells[crt.pos - 1 - (Len(line) - i)] = line[i]
    BY <2>1 DEF ConsoleInv, ScreenInv, LineBefore
  <2>3. \A cell \in crt.pos .. CRT_SIZE - 1 : crt.cells[cell] = Blank
    BY DEF ConsoleInv, ScreenInv, BlankAfter
  <2>4. QED
    BY <2>2, <2>3
<1>2. QED
  BY ConsoleInvAlways, <1>1, PTL

(* cprintf() and sys_cputs(): output that fits the buffer comes out in one *)
(* piece, whichever programs print at the same time, and so do the echo    *)
(* and the prompts of the monitor.                                         *)
THEOREM LinesStayWhole == Spec => []LinesWhole
<1>1. ConsoleInv => LinesWhole
  <2> SUFFICES ASSUME ConsoleInv, NEW p \in Who, p \in Prog => Cardinality(Of(p)) <= PRINTBUF - 1
               PROVE  InPiece(Of(p))
    <3>1. DOMAIN log = 1 .. Len(log)
      BY DEF ConsoleInv, PrintInv, PrintTypes
    <3>2. \A q \in Who : {i \in DOMAIN log : log[i] = q} = Of(q)
      BY <3>1 DEF Of
    <3>3. QED
      BY <3>1, <3>2 DEF LinesWhole, Who, InPiece
  <2>1. CASE p \in Prog
    <3>1. Cardinality(Of(p)) < PRINTBUF
      BY <2>1, Sizes, OfIsFinite DEF ConsoleInv, PrintInv
    <3>2. QED
      BY <2>1, <3>1 DEF ConsoleInv, PrintInv, ProgramWhole
  <2>2. CASE p = "kernel"
    BY <2>2, EndIsInPiece DEF ConsoleInv, PrintInv, MonitorWhole
  <2>3. QED
    BY <2>1, <2>2 DEF Who
<1>2. QED
  BY ConsoleInvAlways, <1>1, PTL
=============================================================================
