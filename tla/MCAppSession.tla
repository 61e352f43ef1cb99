---------------------------- MODULE MCAppSession ----------------------------
\* A pool of two threads, one image, and sessions of a few clicks each: edits
\* and a search, scans, and the close, with a fault of the writer.
EXTENDS AppSession, TLC

CONSTANTS i1, all, blue

MCImage == {i1}
MCSearch == {all, blue}

Of(search, edit, scans, root, look, close, fault) ==
    "search" :> search @@ "edit" :> edit @@ "scan" :> scans @@ "root" :> root @@ "look" :> look
    @@ "close" :> close @@ "fault" :> fault

\* search, edit, scan, root, look, close, fault
MCSessions == {Of(1, 1, 0, 0, 0, 0, 0), Of(1, 0, 0, 0, 1, 0, 0), Of(0, 2, 0, 0, 0, 0, 1),
               Of(0, 0, 2, 0, 0, 0, 0), Of(0, 1, 1, 0, 0, 0, 0), Of(0, 0, 0, 1, 0, 1, 0),
               Of(0, 0, 1, 0, 0, 1, 1), Of(0, 1, 0, 0, 0, 1, 1)}
=============================================================================
