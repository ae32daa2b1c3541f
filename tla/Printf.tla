------------------------------- MODULE Printf -------------------------------
(***************************************************************************)
(* ac_printf (libs/ac_printf): the formatter that all printing functions   *)
(* share, the writer to a buffer of ac_snprintf, and the table of format   *)
(* processors that any thread adds to.                                     *)
(*                                                                         *)
(* A format is a sequence of items, a literal character or a conversion    *)
(* with its flags, width and argument.  Characters are numbers: a digit is *)
(* itself, all others are negative.  Word is 2^32 or 2^64, and result, in  *)
(* which a number is built backwards, has room for the digits of a word in *)
(* base 2 and a sign.  A writer belongs to one thread here; ac_printf      *)
(* shares one between all.                                                 *)
(***************************************************************************)
EXTENDS Integers, Sequences, SequencesExt

CONSTANTS
  Items,      \* the items: [conv, plus, left, zero, width, arg]
  MaxItems,   \* bound: the items of a format
  MaxLens,    \* the sizes of buffers, out_buff_len
  Word,       \* values are unsigned modulo Word
  ResultLen,  \* sizeof(result)
  TsMax,      \* AC_PRINTF_TS_MAX
  Procs       \* who registers: the name of a conversion each

Space == -1
Plus == -2
Minus == -3
Letter == -4
Percent == -5
Brace == -6

VARIABLES
  fmt,     \* the items not formatted yet
  wr,      \* the writer: sign_to_print, left_justified, leading_0, min_width, max_len
  out,     \* what its buffer holds
  fpc,     \* where the formatter is
  last,    \* history: the last number converted, and the text it gave
  text,    \* history: everything written
  ts,      \* ac_printf_ts: the names registered, "none" where there is none
  tsCount, \* ac_printf_ts_count
  reg      \* per registration: where it is, and what it returned

pfvars == <<fmt, wr, out, fpc, last, text, ts, tsCount, reg>>

NoFlags(max) == [max |-> max, sign |-> 0, left |-> FALSE, zero |-> FALSE, width |-> 0]

Init ==
  /\ fmt = <<>>
  /\ wr = NoFlags(0)
  /\ out = <<>>
  /\ fpc = "idle"
  /\ last = <<>>
  /\ text = <<>>
  /\ ts = [i \in 1 .. TsMax |-> "none"]
  /\ tsCount = 0
  /\ reg = [c \in Procs |-> [at |-> "no", idx |-> 0]]

-----------------------------------------------------------------------------
(* Numbers.                                                                *)

Rep(c, n) == [i \in 1 .. (IF n > 0 THEN n ELSE 0) |-> c]

\* What is left of v after each digit, and the digits, the last one first: there are no
\* more when nothing is left, or result is full.
Left(v, radix) ==
  LET left[i \in 0 .. ResultLen] == IF i = 0 THEN v ELSE left[i - 1] \div radix
  IN left
RevDigits(v, radix) ==
  LET left == Left(v, radix)
      L == {i \in 1 .. ResultLen : left[i] = 0 \/ i = ResultLen}
      n == CHOOSE n \in L : \A i \in L : n <= i
  IN [i \in 1 .. n |-> left[i - 1] % radix]

\* Mutant of Pad0: the place of the sign is forgotten.
Pad0NoSign(w, n) == IF w.zero THEN w.width - n ELSE 0

\* pad0count.
Pad0(w, n) == IF ~w.zero THEN 0 ELSE IF w.sign = 0 THEN w.width - n ELSE w.width - n - 1

\* write_uval: result, which is then written backwards, and the spaces.
Result(w, v, radix) ==
  LET d == RevDigits(v, radix)
  IN d \o Rep(0, Pad0(w, Len(d))) \o (IF w.sign = 0 THEN <<>> ELSE <<w.sign>>)
UVal(w, v, radix) ==
  LET r == Result(w, v, radix)
      spaces == Rep(Space, w.width - Len(r))
  IN IF w.left THEN Reverse(r) \o spaces ELSE spaces \o Reverse(r)

Radix == [d |-> 10, u |-> 10, x |-> 16, b |-> 2, p |-> 16]
Numbers == DOMAIN Radix

\* write_sval of %d; %p has leading zeros up to the digits of a word.
Signed(c) == c = "d"
WriterFor(w, c, v) ==
  IF Signed(c) /\ v < 0 THEN [w EXCEPT !.sign = Minus]
  ELSE IF c = "p" THEN [w EXCEPT !.zero = TRUE,
                                 !.width = IF @ = 0 THEN Len(RevDigits(Word - 1, 16)) ELSE @]
  ELSE w
Magnitude(c, v) == IF Signed(c) /\ v < 0 THEN -v ELSE v % Word

\* A value fits in a word, and its digits in base 2 and a sign in result; but nothing
\* checks that a width that is filled with zeros does.
PrintfAssumption ==
  /\ Word \in Nat \ {0} /\ ResultLen \in Nat \ {0, 1} /\ Left(Word - 1, 2)[ResultLen - 1] = 0
  /\ MaxItems \in Nat /\ MaxLens \subseteq Nat /\ TsMax \in Nat /\ "none" \notin Procs
  /\ \A i \in Items :
       /\ i.plus \in BOOLEAN /\ i.left \in BOOLEAN /\ i.zero \in BOOLEAN
       /\ i.width \in Nat /\ i.arg \in Int
       /\ i.conv \in Numbers =>
            /\ i.arg < Word /\ (IF Signed(i.conv) THEN -i.arg < Word ELSE i.arg >= 0)
            /\ i.zero \/ i.conv = "p" => i.width <= ResultLen

-----------------------------------------------------------------------------
(* The formatter.                                                          *)

\* sprintf_write_param: the last byte is for the 0 of sprintf_write_end.
Room(o, max) == Len(o) < max - 1

Written(o, max, s) ==
  LET f[i \in 0 .. Len(s)] == IF i = 0 THEN o
                              ELSE IF Room(f[i - 1], max) THEN Append(f[i - 1], s[i])
                              ELSE f[i - 1]
  IN f[Len(s)]

Write(s) == text' = text \o s /\ out' = Written(out, wr.max, s)

\* ac_snprintf, which has nothing to format into a buffer of one byte.
Begin(f, max) ==
  /\ fpc = "idle" /\ max > 1
  /\ fmt' = f
  /\ wr' = NoFlags(max)
  /\ out' = <<>> /\ text' = <<>> /\ last' = <<>>
  /\ fpc' = "next"
  /\ UNCHANGED <<ts, tsCount, reg>>

\* A literal, or the flags and the width of a conversion; the end.
NextItem ==
  /\ fpc = "next"
  /\ IF fmt = <<>> THEN fpc' = "idle" /\ UNCHANGED <<wr, fmt, out, text>>
     ELSE IF Head(fmt).conv = "literal"
          THEN Write(<<Letter>>) /\ fmt' = Tail(fmt) /\ UNCHANGED <<wr, fpc>>
     ELSE /\ wr' = [max |-> wr.max, sign |-> IF Head(fmt).plus THEN Plus ELSE 0,
                    left |-> Head(fmt).left, zero |-> Head(fmt).zero,
                    width |-> Head(fmt).width]
          /\ fpc' = "convert"
          /\ UNCHANGED <<fmt, out, text>>
  /\ UNCHANGED <<last, ts, tsCount, reg>>

Converting(S) == fpc = "convert" /\ Head(fmt).conv \in S /\ UNCHANGED <<ts, tsCount, reg>>
ToNext == fmt' = Tail(fmt) /\ fpc' = "next"

Number ==
  /\ Converting(Numbers)
  /\ LET c == Head(fmt).conv
         v == Head(fmt).arg
         w == WriterFor(wr, c, v)
     IN /\ Write(UVal(w, Magnitude(c, v), Radix[c]))
        /\ last' = <<[item |-> Head(fmt), text |-> UVal(w, Magnitude(c, v), Radix[c]),
                      result |-> Len(Result(w, Magnitude(c, v), Radix[c]))]>>
        /\ wr' = w
  /\ ToNext

\* %% and %c write one character, %s its string; the width is ignored.
Chars ==
  /\ Converting({"%", "c", "s"})
  /\ Write(CASE Head(fmt).conv = "%" -> <<Percent>>
             [] Head(fmt).conv = "c" -> <<Letter>>
             [] OTHER -> Rep(Letter, Head(fmt).arg))
  /\ ToNext
  /\ UNCHANGED <<wr, last>>

\* A format that ends in a conversion, or in a type name that is not closed or is too
\* long, which is written with a remark: the formatter stops.
Ends ==
  /\ Converting({"end", "{"})
  /\ Write(IF Head(fmt).conv = "end" THEN <<>> ELSE <<Brace, Letter, Letter>>)
  /\ fmt' = <<>> /\ fpc' = "next"
  /\ UNCHANGED <<wr, last>>

\* The processor of another conversion, %ch or %{type}, writes its argument; without
\* one the conversion itself is written.
Registered(c) == \E i \in 1 .. TsMax : ts[i] = c
Other ==
  /\ Converting(Procs)
  /\ Write(IF Registered(Head(fmt).conv) THEN Rep(Letter, Head(fmt).arg)
           ELSE <<Percent, Brace>>)
  /\ ToNext
  /\ UNCHANGED <<wr, last>>

-----------------------------------------------------------------------------
(* ac_printf_register_format_proc and _str.                                *)

RegVars == UNCHANGED <<fmt, wr, out, fpc, last, text>>

Reserve(c) ==
  /\ reg[c].at = "no"
  /\ tsCount' = tsCount + 1
  /\ reg' = [reg EXCEPT ![c] = [at |-> IF tsCount < TsMax THEN "fill" ELSE "full",
                                idx |-> tsCount + 1]]
  /\ RegVars /\ UNCHANGED ts

Fill(c) ==
  /\ reg[c].at = "fill"
  /\ ts' = [ts EXCEPT ![reg[c].idx] = c]
  /\ reg' = [reg EXCEPT ![c].at = "ok"]
  /\ RegVars /\ UNCHANGED tsCount

Full(c) ==
  /\ reg[c].at = "full"
  /\ tsCount' = TsMax
  /\ reg' = [reg EXCEPT ![c].at = "error"]
  /\ RegVars /\ UNCHANGED ts

-----------------------------------------------------------------------------

Next ==
  \/ \E f \in BoundedSeq(Items, MaxItems), max \in MaxLens : Begin(f, max)
  \/ NextItem \/ Number \/ Chars \/ Ends \/ Other
  \/ \E c \in Procs : Reserve(c) \/ Fill(c) \/ Full(c)

Spec == Init /\ [][Next]_pfvars

-----------------------------------------------------------------------------
(* Properties                                                              *)

\* What a sequence of digits says in a base.
Value(s, radix) ==
  LET v[i \in 0 .. Len(s)] == IF i = 0 THEN 0 ELSE v[i - 1] * radix + s[i]
  IN v[Len(s)]

\* Text t is k spaces and, behind the sign, the digits, of a value in a base.
Shows(t, k, left, sign, val, radix, zeros) ==
  LET at == (IF left THEN 0 ELSE k) + Len(sign)
      ds == [j \in 1 .. Len(t) - k - Len(sign) |-> t[at + j]]
  IN /\ Len(t) - k - Len(sign) > 0
     /\ t = IF left THEN sign \o ds \o Rep(Space, k) ELSE Rep(Space, k) \o sign \o ds
     /\ \A j \in DOMAIN ds : ds[j] \in 0 .. radix - 1
     /\ Value(ds, radix) = val
     /\ ~zeros => Len(ds) = 1 \/ ds[1] # 0

\* A number is written as the format says: the digits say its value, without
\* leading zeros unless those were asked for; the sign comes first; the text is
\* as wide as the width or the number, whichever is more, filled with zeros if
\* that flag is set, else with spaces at the side the flag says.  And result is
\* never written past its end.
WellWritten(i, t, result) ==
  LET sign == IF i.arg < 0 THEN <<Minus>> ELSE IF i.plus THEN <<Plus>> ELSE <<>>
      val == IF i.arg < 0 THEN -i.arg ELSE i.arg
      width == IF i.conv = "p" /\ i.width = 0 THEN Len(RevDigits(Word - 1, 16)) ELSE i.width
      zero == i.zero \/ i.conv = "p"
  IN /\ Len(t) >= width
     /\ \E k \in 0 .. Len(t) :
          /\ Shows(t, k, i.left, sign, val, Radix[i.conv], zero /\ Len(t) = width)
          /\ k > 0 => ~zero /\ Len(t) = width
     /\ result <= ResultLen
NumberIsWritten == last # <<>> => WellWritten(last[1].item, last[1].text, last[1].result)

\* The buffer holds the beginning of the text and its final 0, whatever the
\* length of the text; and a processor whose registration succeeded is found from
\* then on, however many threads register while the table fills up.
BufferAndTable ==
  /\ out = SubSeq(text, 1, Len(out))
  /\ fpc # "idle" => Len(out) = IF Len(text) < wr.max THEN Len(text) ELSE wr.max - 1
  /\ \A c \in Procs : reg[c].at = "ok" => Registered(c)
  /\ \A c, e \in Procs : reg[c].at \in {"fill", "ok"} /\ reg[c].idx = reg[e].idx => c = e

\* Both, of every format, buffer and registration.
WrittenAsAsked == NumberIsWritten /\ BufferAndTable
=============================================================================
