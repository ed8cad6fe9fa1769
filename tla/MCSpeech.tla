------------------------------ MODULE MCSpeech ------------------------------
(***************************************************************************)
(* Three agents on a line, a radio that speaks, and a few worlds: senses      *)
(* with and without range, strict and fallback, and the older cascade.       *)
(***************************************************************************)
EXTENDS Speech, TLC

CONSTANTS anna, bruno, carla, radio, rumour, null

Three == {anna, bruno, carla}
Radio == {[from |-> radio, kind |-> "speech", channel |-> "signal", intensity |-> 50,
           range |-> Unlimited, tags |-> {"news"}, every |-> 2]}
Slow == anna :> 2 @@ bruno :> 1 @@ carla :> 3

Ear(range, floor) == [range |-> range, sensitivity |-> 100, floor |-> floor, tongues |-> {}]
Ears == [a \in Three |-> "sound" :> Ear(10, 5) @@ "signal" :> Ear(Unlimited, 0)
                           @@ "language" :> Ear(Unlimited, 0)]
Cares == [a \in Three |->
            [needs |-> {[value |-> 80, activation |-> 50, tags |-> {"news"}]}, needWeight |-> 1,
             goals |-> <<[phrase |-> "trade", words |-> {"fish", "salt"}]>>,
             interests |-> {"news", "weather"}, ties |-> {[to |-> bruno, strength |-> 50]},
             relationshipWeight |-> 1, threshold |-> 10, distractibility |-> 50, budget |-> 2]]

Nothing == [topic |-> {}, cause |-> {null}]
Plain == [json |-> TRUE, outer |-> Nothing, metadata |-> Nothing]
Naming == [json |-> TRUE, outer |-> Nothing, metadata |-> [Nothing EXCEPT !.topic = {rumour}]]
Replying == [json |-> TRUE, outer |-> [Nothing EXCEPT !.cause = {<<anna, 2>>}], metadata |-> Nothing]

Village == [perception |-> TRUE, fallback |-> FALSE, policy |-> "drop", geography |-> TRUE,
            senses |-> Ears, places |-> anna :> 0 @@ bruno :> 5 @@ carla :> 20 @@ radio :> 0,
            voice |-> [a \in Three |-> 70],
            says |-> anna :> {"fish"} @@ bruno :> {} @@ carla :> {"weather", "trade"},
            conversation |-> {}, friends |-> <<>>,
            radius |-> 0, deaf |-> {}, hushed |-> {}, drowsy |-> {bruno}, needy |-> {},
            inbound |-> {{}}, drawn |-> {Three}, cares |-> Cares, reach |-> {3, 30},
            walkers |-> {}, sparing |-> {}, until |-> 2, venues |-> <<>>, shared |-> {},
            answers |-> {Plain}]
Muffled == [Village EXCEPT !.deaf = {<<bruno, anna>>}, !.hushed = {carla},
                          !.places = anna :> 0 @@ bruno :> 5 @@ carla :> 4 @@ radio :> 0]
Lenient == [Village EXCEPT !.fallback = TRUE, !.conversation = {bruno, carla},
                           !.policy = "broadcast"]
Legacy == [Village EXCEPT !.perception = FALSE, !.radius = 6, !.friends =
              anna :> {} @@ bruno :> {anna, carla} @@ carla :> {}, !.inbound = {{}, {anna}}]
Quiet == [Village EXCEPT !.until = 4, !.answers = {Plain, Naming},
                         !.voice = [a \in Three |-> 30], !.drowsy = Three,
                         !.places = anna :> 0 @@ bruno :> 5 @@ carla :> Nowhere @@ radio :> 0,
                         !.senses = [a \in {anna, bruno} |-> Ears[a]], !.drawn = {{}, {anna}}]
Pointing == [Quiet EXCEPT !.until = 3, !.answers = {Plain, Replying}]
Restless == [Village EXCEPT !.walkers = {bruno}, !.until = 2,
                            !.senses = [a \in {anna, bruno} |-> Ears[a]], !.drawn = {{anna, bruno}}]
Indoors == [Village EXCEPT !.places = anna :> 0 @@ bruno :> 5 @@ carla :> 4 @@ radio :> 0,
                           !.venues = 0 :> "house" @@ 3 :> "hall" @@ 4 :> "shop" @@ 5 :> "shop",
                           !.shared = {"hall"}, !.walkers = {carla}, !.reach = {3}, !.until = 1]
Busy == [Village EXCEPT !.sparing = {bruno}, !.until = 3,
                        !.senses = [a \in {anna, bruno} |-> Ears[a]], !.drawn = {{anna}}]
OnThePhone == [Busy EXCEPT !.sparing = {}, !.conversation = {anna, bruno}]
Worlds == {Village, Muffled, Lenient, Legacy, Quiet, Pointing, Restless, Indoors, Busy, OnThePhone}
=============================================================================
