---------------------------- MODULE MC_CodeCache ----------------------------
EXTENDS CodeCache

\* Two pages of code that may be written, and a page of data.
MCInitMem == [a \in 0 .. PageSize * NumPages - 1 |->
                CASE a = 4 -> "wide" [] a = 3 -> "jmp" [] OTHER -> "op"]
MCInitMaps == {[base |-> 0, bottom |-> 2 * PageSize, perm |-> {"r", "w", "x"}],
               [base |-> 2 * PageSize, bottom |-> PageSize * NumPages,
                perm |-> {"r", "w"}]}
=============================================================================
