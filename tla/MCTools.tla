-------------------------------- MODULE MCTools --------------------------------
(* The command line tool: runs of one command or of a script of several, and
   the keypad with the texts that tell its parser's paths apart.             *)
EXTENDS Concordctl

Word(name, args, options) == [name |-> name, args |-> args, options |-> options]

Lone(cmd) == [options |-> <<"debug">>, command |-> <<cmd>>, script |-> <<>>, newline |-> FALSE,
              tty |-> FALSE, bus |-> TRUE]
Script(lines, newline) == [Lone(Word("help", <<>>, {})) EXCEPT
                             !.command = <<>>, !.script = lines, !.newline = newline]
MCStatuses == {0, -3}

Calls == {Word("arm", <<2>>, {}), Word("arm", <<4>>, {}), Word("panic", <<1>>, {}),
          Word("panic", <<>>, {}), Word("panic", <<4>>, {}), Word("keypad-input", <<1>>, {}),
          Word("refresh", <<>>, {}), Word("refresh", <<1>>, {}), Word("system", <<>>, {}),
          Word("partition", <<>>, {}), Word("arm", <<>>, {"help"})}
Eachs == {Word("zone", <<1, 95>>, {}), Word("zone", <<7, 1>>, {"bypass"}), Word("zone", <<>>, {}),
          Word("zone", <<>>, {"all"}), Word("light", <<1, 2>>, {}), Word("light", <<>>, {}),
          Word("light", <<1, 2>>, {"json"}), Word("output", <<2, 1>>, {}), Word("output", <<>>, {})}
Logs == {Word("log", <<>>, {}), Word("log", <<>>, {"bad style"}), Word("log", <<>>, {"help"})}
Others == {Word("quit", <<>>, {}), Word("nonsense", <<>>, {}), Word("help", <<>>, {}),
           Word("clear", <<>>, {}), Word("keypad-text", <<>>, {})}

OneCommand == {Lone(c) : c \in Calls \union Eachs \union Logs \union Others}
Scripts ==
  {Script(<<<<a>>, <<>>, <<b>>>>, newline) :
     a \in {Word("refresh", <<>>, {}), Word("zone", <<1, 95>>, {})},
     b \in {Word("arm", <<1>>, {}), Word("log", <<>>, {}), Word("zone", <<7, 1>>, {"bypass"}), Word("quit", <<>>, {})},
     newline \in BOOLEAN}
Stops ==
  {[Lone(Word("clear", <<>>, {})) EXCEPT !.options = <<"debug", o>>] :
     o \in {"help", "version", "bad partition", "bad file"}}
  \union {[Lone(Word("clear", <<>>, {})) EXCEPT !.bus = FALSE],
          [Script(<<>>, TRUE) EXCEPT !.tty = TRUE], Script(<<>>, TRUE)}

MCRuns == OneCommand \union Scripts \union Stops
KeypadRun == {Lone(Word("keypad", <<>>, {})), Lone(Word("keypad", <<>>, {"help"}))}

MCTyped == {<<"1", "Enter", "q">>, <<"Esc", "[", "A", "Esc", "q", "x">>,
            <<"Esc", "[", "5", "A", "Esc", "[", "B">>}
MCZonesOf == 0 :> 1 @@ 2 :> 2 @@ 95 :> 1
AllRuns == MCRuns \union KeypadRun
=============================================================================
