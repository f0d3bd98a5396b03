------------------------ MODULE MCGregorianCalendar ------------------------
(***************************************************************************)
(* Instances of GregorianCalendar and DateRanges for TLC.                  *)
(***************************************************************************)
EXTENDS DateRanges

\* Around a leap year, a leap century and a common century.
CenturyYears == (1899 .. 1902) \cup (1999 .. 2003)

LeapYears == 2019 .. 2021

Numbers == {-3, 0, 1, 29, 31, 62}

Shifts == {-365, -59, -1, 1, 7, 31, 365}

Months == {-12, -1, 1, 11}

OneYear == {-1, 1}

\* Ends before, on and after leap days that are and are not there.
Ends == {Date(1900, 2, 0), Date(2000, 1, 27), Date(2000, 1, 28), Date(2001, 2, 0)}
=============================================================================
