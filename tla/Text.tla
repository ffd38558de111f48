--------------------------------- MODULE Text ---------------------------------
(***************************************************************************)
(* Strings, conversions and formatted output: libc/string, libc/stdlib/    *)
(* convert.c, env.c, libc/stdio/nprintf.c and the kernel's copy of the     *)
(* formatting in kernel/kernel/printf.c.  Each is compared with what it    *)
(* should compute.  A character is a number: its digit value, or one of    *)
(* the codes below.  An int has Width bits.                                *)
(***************************************************************************)
EXTENDS Integers, Sequences, SequencesExt

CONSTANTS
  Width,          \* bits of an int
  NumberCases, MoveCases, StringCases, FormatCases, EnvCases

ASSUME TextAssumption == Width \in Nat /\ Width % 4 = 0 /\ Width > 0

Minus == 100
Plus == 104
Percent == 101
Equals == 102
Blank == 103
IsDigit(c) == c < 36

UnsignedMod == 2 ^ Width
IntMax == UnsignedMod \div 2 - 1
Wrap(n) == ((n + UnsignedMod \div 2) % UnsignedMod) - UnsignedMod \div 2

\* Division of int truncates towards zero.
Quot(a, b) == IF a >= 0 THEN a \div b ELSE -((-a) \div b)

-----------------------------------------------------------------------------
\* unsigned_itoa, itoa and strtol.

\* The digits from the last one on; the table of digits is symmetric around its
\* middle, so a negative remainder has its digit too.
RECURSIVE DigitsBackwards(_, _)
DigitsBackwards(value, base) ==
  LET rest == Quot(value, base)
      digit == value - rest * base IN
  <<IF digit < 0 THEN -digit ELSE digit>> \o IF rest = 0 THEN <<>> ELSE DigitsBackwards(rest, base)

unsigned_itoa(value, base) == Reverse(DigitsBackwards(value, base))

itoa(value, base) ==
  IF base # 10 THEN unsigned_itoa(value % UnsignedMod, base)
  ELSE Reverse(DigitsBackwards(value, base) \o IF value < 0 THEN <<Minus>> ELSE <<>>)

RECURSIVE SkipBlanks(_)
SkipBlanks(s) == IF s # <<>> /\ Head(s) = Blank THEN SkipBlanks(Tail(s)) ELSE s

\* Every character counts for the weight of the first digit, digits of 16 are
\* taken in any base, and the arithmetic is that of a long int.
RECURSIVE SumDigits(_, _, _, _)
SumDigits(s, value, base, number) ==
  IF s = <<>> \/ Head(s) >= 16 THEN number
  ELSE SumDigits(Tail(s), Quot(value, base), base, Wrap(number + Head(s) * value))

strtol(str, base) ==
  LET s == SkipBlanks(str)
      sign == IF s # <<>> /\ Head(s) = Minus THEN -1 ELSE 1
      digits == IF s # <<>> /\ Head(s) \in {Minus, Plus} THEN Tail(s) ELSE s IN
  IF digits = <<>> THEN 0
  ELSE Wrap(sign * SumDigits(digits, Wrap(base ^ (Len(digits) - 1)), base, 0))

-----------------------------------------------------------------------------
\* memcpy and memmove on one array: both orders of copying, byte by byte.

RECURSIVE CopyUp(_, _, _, _, _)
CopyUp(mem, dst, src, i, n) ==
  IF i = n THEN mem ELSE CopyUp([mem EXCEPT ![dst + i] = mem[src + i]], dst, src, i + 1, n)

RECURSIVE CopyDown(_, _, _, _)
CopyDown(mem, dst, src, n) ==
  IF n = 0 THEN mem ELSE CopyDown([mem EXCEPT ![dst + n - 1] = mem[src + n - 1]], dst, src, n - 1)

memcpy(mem, dst, src, n) == CopyUp(mem, dst, src, 0, n)

memmove(mem, dst, src, n) ==
  IF dst < src THEN CopyUp(mem, dst, src, 0, n) ELSE CopyDown(mem, dst, src, n)

-----------------------------------------------------------------------------
\* Strings, with the terminating zero left out: reading past the end of one
\* finds it (here -1).

At(s, i) == IF i <= Len(s) THEN s[i] ELSE -1

\* Whether the first num characters, the terminator included, are the same.
strncmp(s1, s2, num) == \A i \in 1..num : At(s1, i) = At(s2, i)
strcmp(s1, s2) == Len(s1) = Len(s2) /\ strncmp(s1, s2, Len(s1))
strncpy(from, num) == SubSeq(from, 1, IF Len(from) < num THEN Len(from) ELSE num)
strcat(to, from) == to \o strncpy(from, Len(from))

\* The place of s2 in s1, or 0.
strstr(s1, s2) ==
  LET found == {i \in 1..Len(s1) : Len(s1) - i + 1 >= Len(s2)
                                    /\ strncmp(SubSeq(s1, i, Len(s1)), s2, Len(s2))} IN
  IF s2 = <<>> THEN 1 ELSE IF found = {} THEN 0 ELSE CHOOSE i \in found : \A j \in found : i <= j

\* The value, marked with 1, or <<0>>.
getenv(env, name) ==
  LET found == {i \in DOMAIN env : strncmp(env[i], name, Len(name))
                                    /\ At(env[i], Len(name) + 1) = Equals} IN
  IF found = {} THEN <<0>>
  ELSE LET i == CHOOSE j \in found : \A k \in found : j <= k IN
       <<1>> \o SubSeq(env[i], Len(name) + 2, Len(env[i]))

-----------------------------------------------------------------------------
\* generic_nprintf.  A format is a sequence of characters; a conversion is
\* Percent and one of the letters.  The output goes to the array dest, or to a
\* function that takes one character (toArray = FALSE); remaining is how many
\* characters may be put, -1 for any number.

Letter == [c |-> 12, s |-> 28, d |-> 13, u |-> 30, x |-> 33, p |-> 25]

PrintState(toArray, remaining) ==
  [toArray |-> toArray, remaining |-> remaining, out |-> <<>>, written |-> 0, failed |-> FALSE]

\* dest[off + i] = data[i] for the array, put_one for the function.
Put(st, off, data) ==
  IF ~st.toArray THEN st.out \o data
  ELSE SubSeq(st.out, 1, off) \o data \o SubSeq(st.out, off + Len(data) + 1, Len(st.out))

\* print: as many characters as there is room for.
print(st, off, data) ==
  LET room == IF st.remaining < 0 \/ st.remaining > Len(data) THEN Len(data) ELSE st.remaining
      out == Put(st, off, SubSeq(data, 1, room)) IN
  [st EXCEPT !.out = out, !.failed = st.failed \/ room < Len(data),
             !.remaining = IF @ < 0 THEN @ ELSE @ - room]

\* The number of characters written is an int: EOVERFLOW when it would not fit.
PrintAndCount(st, data) ==
  IF IntMax - st.written < Len(data) THEN [st EXCEPT !.failed = TRUE]
  ELSE LET printed == print(st, st.written, data) IN [printed EXCEPT !.written = @ + Len(data)]

\* The characters up to the next Percent.
RunLength(f) ==
  LET stops == {i \in 2..Len(f) : f[i] = Percent} IN
  IF stops = {} THEN Len(f) ELSE (CHOOSE i \in stops : \A j \in stops : i <= j) - 1

\* %p: the zeros are all put at the same place, and not counted.
PrintPointer(st, value) ==
  LET digits == unsigned_itoa(value, 16)
      padded == FoldLeft(LAMBDA s, i : IF s.failed THEN s ELSE print(s, s.written, <<0>>), st,
                         [i \in 1..(Width \div 4 - Len(digits)) |-> i]) IN
  IF IntMax - st.written < Width \div 4 THEN [st EXCEPT !.failed = TRUE]
  ELSE IF padded.failed THEN padded ELSE PrintAndCount(padded, digits)

Convert(letter, arg) ==
  CASE letter = Letter.c -> <<arg>>
    [] letter = Letter.s -> arg
    [] letter = Letter.d -> itoa(arg, 10)
    [] letter = Letter.u -> unsigned_itoa(arg, 10)
    [] letter = Letter.x -> unsigned_itoa(arg, 16)

RECURSIVE generic_nprintf(_, _, _)
generic_nprintf(st, format, args) ==
  IF format = <<>> \/ st.failed THEN st
  ELSE IF format[1] # Percent \/ At(format, 2) = Percent
  THEN LET run == IF format[1] = Percent THEN Tail(format) ELSE format IN
       generic_nprintf(PrintAndCount(st, SubSeq(run, 1, RunLength(run))),
                       SubSeq(run, RunLength(run) + 1, Len(run)), args)
  ELSE LET letter == At(format, 2) IN
       IF letter = Letter.p
       THEN generic_nprintf(PrintPointer(st, args[1]), SubSeq(format, 3, Len(format)), Tail(args))
       ELSE IF letter \in {Letter.c, Letter.s, Letter.d, Letter.u, Letter.x}
       THEN generic_nprintf(PrintAndCount(st, Convert(letter, args[1])),
                            SubSeq(format, 3, Len(format)), Tail(args))
       ELSE PrintAndCount(st, format)

\* The functions that call it: into an array of num characters, or through a
\* stream.  Neither of the first two ends the array with a zero.
snprintf(num, format, args) == generic_nprintf(PrintState(TRUE, num), format, args)
fprintf(format, args) == generic_nprintf(PrintState(FALSE, -1), format, args)

\* printf.c of the kernel has the same loop, over a putchar function instead of
\* a generic_printer and without errno.
KernelNprintf(st, format, args) == generic_nprintf(st, format, args)
generic_printf(format, args) == KernelNprintf(PrintState(FALSE, -1), format, args)
ksnprintf(len, format, args) == KernelNprintf(PrintState(TRUE, len), format, args)

-----------------------------------------------------------------------------
VARIABLE textCase

TextInit ==
  \/ textCase \in NumberCases \/ textCase \in MoveCases \/ textCase \in StringCases
  \/ textCase \in FormatCases \/ textCase \in EnvCases

\* The number that digits stand for.
ValueOf(digits, base) == FoldLeft(LAMBDA n, d : n * base + d, 0, digits)
Canonical(digits, base) ==
  /\ \A i \in DOMAIN digits : digits[i] \in 0..(base - 1)
  /\ Len(digits) = 1 \/ digits[1] # 0

\* A format as a sequence of items: a literal character, Percent, or a letter
\* with its argument; and what it should print.
ItemFormat(item) ==
  IF item.letter = "literal" THEN IF item.arg = Percent THEN <<Percent, Percent>> ELSE <<item.arg>>
  ELSE <<Percent, Letter[item.letter]>>
ItemArgs(item) == IF item.letter = "literal" THEN <<>> ELSE <<item.arg>>
ItemText(item) ==
  CASE item.letter = "literal" -> <<item.arg>>
    [] item.letter = "p" -> [i \in 1..(Width \div 4) |-> (item.arg \div 16 ^ (Width \div 4 - i)) % 16]
    [] OTHER -> Convert(Letter[item.letter], item.arg)
Over(f(_), items) == FlattenSeq([i \in DOMAIN items |-> f(items[i])])

\* The same call to the kernel's function and to the C library's.
Written(items) ==
  LET format == Over(ItemFormat, items)
      args == Over(ItemArgs, items) IN
  {fprintf(format, args), generic_printf(format, args)}
WrittenTo(num, items) ==
  LET format == Over(ItemFormat, items)
      args == Over(ItemArgs, items) IN
  {snprintf(num, format, args), ksnprintf(num, format, args)}

(* Every int survives itoa and strtol, INT_MIN included, and unsigned_itoa  *)
(* writes a number without leading zeros in any base: the digits of a       *)
(* negative number come from negative remainders, never from its absolute   *)
(* value, which may not exist.                                              *)
NumbersRoundTrip ==
  textCase.kind = "number" =>
    LET v == textCase.value
        digits == unsigned_itoa(v % UnsignedMod, textCase.base) IN
    /\ strtol(<<Blank>> \o itoa(v, 10), 10) = v
    /\ v >= 0 => strtol(<<Plus>> \o itoa(v, 10), 10) = v
    /\ Canonical(digits, textCase.base) /\ ValueOf(digits, textCase.base) = v % UnsignedMod

(* memmove moves a region onto any other, overlapping or not, and leaves    *)
(* the rest alone.                                                          *)
MoveKeepsBytes ==
  textCase.kind = "move" =>
    LET mem == [i \in 1..textCase.size |-> i]
        dst == textCase.dst
        n == textCase.n IN
    memmove(mem, dst, textCase.src, n) =
      [i \in 1..textCase.size |-> IF i \in dst..(dst + n - 1) THEN i - dst + textCase.src ELSE i]

(* strstr returns the first place at which the second string stands in the  *)
(* first, at its very end too, and compares no character past that.         *)
FoundFirst ==
  textCase.kind = "string" =>
    LET a == textCase.s1
        b == textCase.s2
        places == {i \in 1..(Len(a) + 1) : i + Len(b) - 1 <= Len(a) /\ SubSeq(a, i, i + Len(b) - 1) = b} IN
    /\ IF places = {} THEN strstr(a, b) = 0
       ELSE strstr(a, b) \in places /\ \A i \in places : strstr(a, b) <= i
    /\ strstr(strcat(a, b), b) # 0 /\ strcmp(strncpy(a, Len(a)), a)

(* getenv returns the value of the variable with exactly the name asked     *)
(* for, when the names of others start with it.                             *)
GetenvExact ==
  textCase.kind = "env" =>
    LET env == [i \in DOMAIN textCase.vars |-> textCase.vars[i].name \o <<Equals>> \o textCase.vars[i].value]
        has == {i \in DOMAIN env : textCase.vars[i].name = textCase.name} IN
    IF has = {} THEN getenv(env, textCase.name) = <<0>>
    ELSE \E i \in has : /\ \A j \in has : i <= j
                        /\ getenv(env, textCase.name) = <<1>> \o textCase.vars[i].value

HasPointer(items) == \E i \in DOMAIN items : items[i].letter = "p"

(* Formatted output prints every conversion and every literal in order,     *)
(* pointers padded to their width, and fails exactly when the number of     *)
(* characters is not an int (the zeros of pointers are not counted).        *)
PrintedAsFormatted ==
  textCase.kind = "format" =>
    LET text == Over(ItemText, textCase.items) IN
    \A r \in Written(textCase.items) :
      /\ ~r.failed => r.out = text
      /\ HasPointer(textCase.items) \/ (r.failed <=> Len(text) > IntMax)

(* Output to an array never passes the room given: it is what was to be     *)
(* printed, cut off there, and fails exactly when it was cut.  A pointer    *)
(* that needs padding is left out: its zeros take up room and are then      *)
(* overwritten.                                                             *)
NeverPastEnd ==
  textCase.kind = "format" /\ ~HasPointer(textCase.items) =>
    LET text == Over(ItemText, textCase.items) IN
    \A r \in WrittenTo(textCase.room, textCase.items) :
      /\ r.failed <=> Len(text) > textCase.room
      /\ IsPrefix(r.out, text) /\ Len(r.out) <= textCase.room
      /\ Len(text) <= IntMax => Len(r.out) = IF r.failed THEN textCase.room ELSE Len(text)

(* All of them: each function returns what its reference definition says.   *)
TextRight == NumbersRoundTrip /\ MoveKeepsBytes /\ FoundFirst /\ GetenvExact /\ PrintedAsFormatted /\ NeverPastEnd

=============================================================================
