------------------------------- MODULE MCDataFlow -------------------------------
(* The components and surroundings of the runs of DataFlow. *)
EXTENDS DataFlow

Plain == [class |-> "codec", ni |-> 1, no |-> 1, size |-> 2, probe |-> FALSE, decoder |-> FALSE,
          early |-> FALSE, relaxed |-> {}, fed |-> {}, routed |-> {}, pauses |-> {},
          many |-> 2, faults |-> {}]

\* a codec at the end of the chain, one inside it, and one that is probed
Decoder == [Plain EXCEPT !.decoder = TRUE, !.pauses = {0}]
Inner   == [Plain EXCEPT !.fed = {0}, !.routed = {1}, !.faults = {"sink", "feeder"}]
Probed  == [Plain EXCEPT !.size = 0, !.probe = TRUE, !.pauses = {2}]
Codecs  == {Decoder, [Decoder EXCEPT !.early = TRUE], Inner, Probed}

\* two tracks: one fed and one of the application, a route that may be lost
Mixer2 == [Inner EXCEPT !.class = "mixer", !.ni = 2, !.routed = {2}, !.pauses = {0}, !.many = 1]
Mixers == {Mixer2,
           [Mixer2 EXCEPT !.fed = {}, !.routed = {}, !.probe = TRUE, !.pauses = {3}]}

\* one output routed and one of the application, or two inputs
Mimo12 == [Inner EXCEPT !.class = "mimo", !.no = 2, !.many = 1]
Mimos  == {Mimo12,
           [Mimo12 EXCEPT !.fed = {}, !.routed = {}, !.relaxed = {2}, !.pauses = {0, 1}],
           [Mimo12 EXCEPT !.fed = {}, !.probe = TRUE, !.pauses = {3}, !.faults = {}],
           [Mimo12 EXCEPT !.ni = 2, !.no = 1, !.routed = {2}, !.faults = {"feeder"}],
           [Mimo12 EXCEPT !.ni = 2, !.no = 1, !.fed = {}, !.routed = {}, !.pauses = {0, 2}]}

\* the output of a renderer is the signal it plays
Renderer0 == [Inner EXCEPT !.class = "renderer"]
Capturer0 == [Plain EXCEPT !.class = "capturer", !.ni = 0, !.routed = {0}]
Devices   == {[Renderer0 EXCEPT !.faults = {"feeder"}], [Renderer0 EXCEPT !.many = 1],
              Capturer0, [Capturer0 EXCEPT !.routed = {}]}

MCKinds == Codecs \cup Mixers \cup Mimos \cup Devices

\* an application at an awkward moment
LiveUnroute == {[k EXCEPT !.faults = {"live unroute"}] : k \in {Mixer2, Renderer0, Capturer0}}
Hasty       == {[Inner EXCEPT !.faults = {"hasty"}]}
Restarts    == {[Mixer2 EXCEPT !.faults = {"restart"}]}
PauseAtEnd  == {[Mixer2 EXCEPT !.routed = {}, !.fed = {}, !.faults = {"pause at end"}]}
DeletedProbe == {[Mimo12 EXCEPT !.fed = {}, !.probe = TRUE, !.pauses = {3}, !.faults = {"probe"}]}
=============================================================================
