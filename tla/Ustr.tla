-------------------------------- MODULE Ustr --------------------------------
(***************************************************************************)
(* src/src/ustr.c repeats str.c line by line under its own class: every    *)
(* call is that of a str.                                                  *)
(***************************************************************************)
EXTENDS Str

UstrFromPtr(t) == StrFromPtr(t)
UstrFromBuff(t, size) == StrFromBuff(t, size)
UstrFromFp(line, newline) == StrFromFp(line, newline)
UstrFromFd(t, reads, moved, eintr) == StrFromFd(t, reads, moved, eintr)
UstrDone(b) == StrDone(b)
UstrDup(b) == StrDup(b)
UstrAppend(b, o) == StrAppend(b, o)
UstrAppendFromPtr(b, t) == StrAppendFromPtr(b, t)
UstrAppendChar(b, c) == StrAppendChar(b, c)
UstrPrepend(b, o) == StrPrepend(b, o)
UstrPrependFromPtr(b, t) == StrPrependFromPtr(b, t)
UstrPrependChar(b, c) == StrPrependChar(b, c)
UstrSplice(b, idx, count, t) == StrSplice(b, idx, count, t)
UstrSubstr(b, idx, count) == StrSubstr(b, idx, count)
UstrTrim(b) == StrTrim(b)
UstrReverse(b) == StrReverse(b)
UstrClear(b, c) == StrClear(b, c)
UstrDowncase(b) == StrDowncase(b)
UstrUpcase(b) == StrUpcase(b)
UstrFind(b, t) == StrFind(b, t)
UstrIndex(b, c) == StrIndex(b, c)
UstrRindex(b, c) == StrRindex(b, c)
UstrEqual(b, t) == StrEqual(b, t)
=============================================================================
