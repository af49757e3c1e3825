----------------------------- MODULE MCLogFlush -----------------------------
(***************************************************************************)
(* Small instances of LogFlush.                                            *)
(***************************************************************************)
EXTENDS LogFlush

\* An empty buffer, a short one, and one that fills a rolled file.
MCChunk == 0 .. 2

\* 01:11 and 20:01 past the hour, which CreateFilename prints alike.
MCClock == {71, 1201}

\* flush_log 0, which promises nothing before exit, 1 and 2.
MCFlushModes == 0 .. 2

=============================================================================
