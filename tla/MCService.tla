----------------------------- MODULE MCService -----------------------------
(***************************************************************************)
(* Small instances of the service around the pipeline, for TLC.            *)
(***************************************************************************)
EXTENDS Service

\* Two months of three days and of two, in a week of two days.
MCCalendar ==
    [d \in 0..30 |->
       LET k == d % 5 IN [dom |-> IF k < 3 THEN k + 1 ELSE k - 2,
                          month |-> IF k < 3 THEN 1 ELSE 2, dow |-> d % 2]]

All == {[star |-> TRUE, lo |-> 0, hi |-> 0, step |-> 0]}
Every(n) == {[star |-> TRUE, lo |-> 0, hi |-> 0, step |-> n]}
Only(v) == {[star |-> FALSE, lo |-> v, hi |-> v, step |-> 0]}
From(v, n) == {[star |-> FALSE, lo |-> v, hi |-> v, step |-> n]}
Span(v, w, n) == {[star |-> FALSE, lo |-> v, hi |-> w, step |-> n]}
Cron(minute, hour, dom, month, dow) ==
    [minute |-> minute, hour |-> hour, dom |-> dom, month |-> month, dow |-> dow]

MCCrons ==
    {Cron(Only(0), Only(1), All, All, All),             \* once a day
     Cron(Only(2), Only(0), Only(1), All, Only(0)),     \* a day of the month or a weekday
     Cron(From(1, 1), All, Every(2), Only(1), All),     \* a step from a value to the end
     Cron(Only(1), Only(1), All, All, Only(2)),         \* Sunday by its other number
     Cron(Only(0), Only(0), Only(3), Only(2), All),     \* no such date
     Cron(Span(2, 1, 0), All, All, All, All)}           \* a range that runs backwards

\* Codarr sees Plex's /data as /media.
MCFile(name) == <<"data", name>>
MCPlexFiles == {MCFile("film"), MCFile("film2")}
MCLocalName == [f \in MCPlexFiles |-> <<"media", f[2]>>]
MCMappings ==
    {<<>>, <<[local |-> <<"media">>, remote |-> <<"data">>]>>,
     <<[local |-> <<"media">>, remote |-> <<>>],
       [local |-> <<"media">>, remote |-> <<"data">>]>>}

MCRootPath == {<<"tv">>, <<"tv", "kids">>}
MCPromoted == <<"tv", "kids", "show">>
MCReported == {<<<<"tv">>, Unmapped, <<"tv", "kids">>>>, <<<<"tv", "kids">>>>, <<<<"tv">>, <<"tv", "kids">>>>}

\* Every *arr has its library at /media.
MCFolder == [s \in Sender |-> <<"media", "title">>]
MCLocalFolder == [s \in Sender |-> <<s, "title">>]
MCNamed == {<<"e1">>, <<"Trailers", "sample">>}
MCMappingsOf ==
    [s \in Sender |->
       {<<>>, <<[local |-> <<"mnt">>, remote |-> <<>>], [local |-> <<s>>, remote |-> <<"media">>]>>}]
=============================================================================
