---------------------------- MODULE MCPlayground ----------------------------
(* A finite instance of Playground for TLC: two languages, which share the *)
(* id of one example, as JavaScript and Java share "page-screenshot".      *)
EXTENDS Playground, TLC

MCExample == "js"   :> ("i1" :> "A" @@ "i2" :> None)
             @@ "java" :> ("i1" :> "C" @@ "i2" :> "B")

MCFirst == "js" :> "i1" @@ "java" :> "i2"
=============================================================================
