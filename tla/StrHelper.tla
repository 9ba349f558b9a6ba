------------------------------ MODULE StrHelper ------------------------------
(***************************************************************************)
(* strHelper (string_helper.cpp, string_helper.inl) and the searches of    *)
(* std::string that it and its callers use, on sequences of bytes.         *)
(***************************************************************************)
EXTENDS Integers, Sequences

\* s.find(what, from) with positions from 1 on, and 0 for npos; what is not empty
Find(s, what, from) ==
  LET hits == {i \in from..(Len(s) + 1 - Len(what)) : SubSeq(s, i, i + Len(what) - 1) = what}
  IN  IF hits = {} THEN 0 ELSE CHOOSE i \in hits : \A j \in hits : i <= j

\* splitStr: what stands before, between and behind the delimiters.  A piece may
\* be empty, except the last.  delim is not empty (with an empty one the loop of
\* the code would not end); the count it returns is the length of the list.
SplitStr(s, delim) ==
  LET rest[prepos \in 1..(Len(s) + 1)] ==
        LET pos == Find(s, delim, prepos)
        IN  IF pos # 0 THEN <<SubSeq(s, prepos, pos - 1)>> \o rest[pos + Len(delim)]
            ELSE IF prepos <= Len(s) THEN <<SubSeq(s, prepos, Len(s))>> ELSE <<>>
  IN  rest[1]

\* Mutant: erases up to and with the last blank of the front only.
TrimFront(s, thechar) ==
  LET kept == {i \in 1..Len(s) : s[i] # thechar}
  IN  IF kept = {} THEN <<>>
      ELSE SubSeq(s, CHOOSE i \in kept : \A j \in kept : i <= j, Len(s))

\* trim: the part from the first to the last byte that is not thechar
Trim(s, thechar) ==
  LET kept == {i \in 1..Len(s) : s[i] # thechar}
  IN  IF kept = {} THEN <<>>
      ELSE SubSeq(s, CHOOSE i \in kept : \A j \in kept : i <= j,
                     CHOOSE i \in kept : \A j \in kept : j <= i)
=============================================================================
