---------------------------- MODULE MCDiscovery ----------------------------
(* A cube that calls one of its fields' module as another node is called:  *)
(* the two conflict until the cube is known to be one.                     *)
EXTENDS Discovery, TLC

CONSTANTS cube, panel, value, data

Property(key, name, module) == [key |-> key, name |-> name, module |-> module]

CubeAndPanel ==
    (cube :> <<Property(0, data, None), Property(1, value, Buttons)>>)
    @@ (panel :> <<Property(0, value, None)>>)

AllButFieldsOfTheCube == (Nodes \X Kinds) \ {<<cube, Enumerate>>}

CubeAndPanelNames == (cube :> Microphone) @@ (panel :> Buttons)
=============================================================================
