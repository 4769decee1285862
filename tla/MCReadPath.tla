----------------------------- MODULE MCReadPath -----------------------------
(* Instances of ReadPath: keys of two bytes, batches that fill pages of two.  *)
EXTENDS ReadPath

MCKeys == {<<0, 0>>, <<0, 1>>, <<1, 0>>, <<1, 1>>, <<2, 1>>}
MCKvKeys == {<<0, 1>>, <<1, 1>>}
MCReadKeys == {<<1, 1>>}
MCTargets == {<<>>, <<1, 1>>}
MCPrefixes == {<<>>, <<1>>, <<0, 1>>, <<2>>, <<1, 2>>}
MCBatches == {<< <<1, 1>> >>, << <<0, 0>>, <<0, 1>>, <<1, 0>>, <<1, 1>>, <<2, 1>> >>}
=============================================================================
