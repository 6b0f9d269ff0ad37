----------------------------- MODULE MCMemIndex -----------------------------
EXTENDS MemIndex

c == "char"
n == "newline"

\* Two chunks, the first of which ends behind a newline at the very end of
\* its room; a file whose zero byte is behind the probe; a binary file.
MCContents == {<<c, c, c, n, n, c>>, <<c, c, "zero", c>>, <<c, "zero">>}
MCMessages == {<<c>>}

=============================================================================
