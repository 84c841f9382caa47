---------------------------- MODULE MCMonitorDir ----------------------------
EXTENDS MonitorDir

Nothing == [n \in Unpacked |-> None]

\* A program with a virus, a signed one, a PDF, an archive of a program and a PDF,
\* one with a virus under the same path, one that holds an archive, and one that
\* breaks off after a PDF.
Mixture == {"virus", "signed", "pdf", "gzip", "zip", "zipv", "nested", "broken"}
MixtureKind == [c \in Mixture |->
    CASE c \in {"virus", "signed"} -> "pe"
      [] c \in {"zip", "zipv", "nested"} -> "archive"
      [] OTHER -> c]
MixtureInside == [c \in Mixture |->
    CASE c = "zip"    -> [n \in Unpacked |-> IF n = "u1" THEN "signed" ELSE "pdf"]
      [] c = "zipv"   -> [n \in Unpacked |-> IF n = "u1" THEN "virus" ELSE None]
      [] c = "nested" -> [n \in Unpacked |-> IF n = "u1" THEN "signed" ELSE "zipv"]
      [] c = "broken" -> [n \in Unpacked |-> IF n = "u1" THEN "pdf" ELSE "virus"]
      [] OTHER -> Nothing]
=============================================================================
