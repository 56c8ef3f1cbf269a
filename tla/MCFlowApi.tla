----------------------------- MODULE MCFlowApi ------------------------------
(* Definitions at the limits that the parser and the sizes know, faults of  *)
(* each kind once.                                                          *)
EXTENDS FlowApi, TLC

Video ==
  [json |-> TRUE, id |-> TRUE, format |-> "video", rated |-> TRUE, num |-> 50, den |-> 2,
   label |-> TRUE, hints |-> <<<<"camera", "video">>>>, width |-> 49, height |-> 6,
   mode |-> "interlaced_tff", media |-> "video/v210a", depth |-> 0, channels |-> Absent]

Data == [Video EXCEPT !.format = "data", !.media = "video/smpte291", !.num = 1, !.den = 1]

Audio ==
  [Video EXCEPT !.format = "audio", !.num = 980, !.den = 6, !.media = "audio/float32",
                !.depth = 64]

Good == {Video, Data, Audio}

Bad ==
  {[Video EXCEPT !.json = FALSE], [Video EXCEPT !.hints = <<<<"camera", "video", "room">>>>],
   [Video EXCEPT !.height = 5], [Video EXCEPT !.width = 7681], [Video EXCEPT !.den = 1],
   [Video EXCEPT !.mode = "progressive", !.media = "video/raw"],
   [Data EXCEPT !.den = 0], [Audio EXCEPT !.num = 0], [Audio EXCEPT !.depth = 16],
   [Audio EXCEPT !.channels = 0]}

BadOptions ==
  {[NoOptions EXCEPT !.json = FALSE], [NoOptions EXCEPT !.commit = 2, !.sync = 3]}

MCRequests ==
  ((Good \cup Bad) \X {NoOptions}) \cup {<<Audio, [NoOptions EXCEPT !.commit = 2, !.sync = 4]>>}
     \cup ({Video} \X BadOptions)

MCDomainOptions == {[json |-> FALSE, history |-> Absent], [json |-> TRUE, history |-> 7]}

\* What a call answered is never read again.  What a generation held that the
\* name no longer refers to only decides answers: its writers are gone.
View ==
  <<history, path, created, writers, readers,
    IF path = None THEN {} ELSE {<<config[path], head[path], complete[path]>>}>>

Symmetry == Permutations(Instances)
=============================================================================
