-------------------------- MODULE CashTranslations --------------------------
(***************************************************************************)
(* How main() in src/qt/cash.cpp chooses the translations of the GUI      *)
(* (GetLangTerritory, initTranslations) and how Qt then consults them.     *)
(*                                                                         *)
(* A locale name is a sequence of segments: "de_DE" is <<"de", "_", "DE">> *)
(* and "qt_de" is <<"qt", "_", "de">>. Indices count segments, not         *)
(* characters; lastIndexOf and truncate only ever meet the "_" separators, *)
(* so they behave on segments as QString's do on characters. A translation *)
(* file is a name of this form; a set of names stands for a directory.     *)
(***************************************************************************)
EXTENDS Integers, Sequences, SequencesExt

Sep == "_"

\* The default GetArg returns when -lang was not given, and the result of a
\* QTranslator::load that found no file.
NotSet == "NotSet"
NoFile == <<>>

\* QString::lastIndexOf(c): the 0-based index of the last c, -1 if none.
lastIndexOf(s, c) == SelectLastInSeq(s, LAMBDA x : x = c) - 1

\* QString::truncate(pos): keeps the first pos characters when pos < size();
\* resize clamps a negative pos to 0, so truncate(-1) empties the string.
truncate(s, pos) ==
    IF pos < Len(s) THEN SubSeq(s, 1, IF pos < 0 THEN 0 ELSE pos) ELSE s

\* QTranslator::load(filename, directory): tries the name, then strips the
\* text after the rightmost delimiter and tries again; it stops when no
\* delimiter is left after index 0. load() clears the translator first, so
\* a failed load leaves it empty (NoFile).
RECURSIVE load(_, _)
load(name, dir) ==
    IF name \in dir THEN name
    ELSE IF lastIndexOf(name, Sep) <= 0 THEN NoFile
    ELSE load(truncate(name, lastIndexOf(name, Sep)), dir)

QtName(s) == <<"qt", Sep>> \o s

\* GetLangTerritory: the system locale, overridden by a non-empty "language"
\* in QSettings, overridden by -lang.
GetLangTerritory(systemName, settingsLanguage, langArg) ==
    LET fromSettings == IF settingsLanguage # <<>> THEN settingsLanguage
                        ELSE systemName
    IN  IF langArg = NotSet THEN fromSettings ELSE langArg

\* The four QTranslator objects of main, in the order they are installed.
Translators == <<"qtTranslatorBase", "qtTranslator", "translatorBase",
                 "translator">>

\* QApplication::removeTranslator for each of the four.
removeTranslators(installed) ==
    SelectSeq(installed, LAMBDA e : \A i \in 1..4 : e.tr # Translators[i])

\* A translator that installs the specific <lang_territory> files before the
\* base <lang> ones.
initTranslationsBaseFirst(installed, lang_territory, qtDir, cashDir) ==
    LET lang   == truncate(lang_territory, lastIndexOf(lang_territory, Sep))
        loaded == <<[tr |-> "qtTranslator", file |-> load(QtName(lang_territory), qtDir)],
                    [tr |-> "qtTranslatorBase", file |-> load(QtName(lang), qtDir)],
                    [tr |-> "translator", file |-> load(lang_territory, cashDir)],
                    [tr |-> "translatorBase", file |-> load(lang, cashDir)]>>
    IN  Reverse(SelectSeq(loaded, LAMBDA e : e.file # NoFile))
            \o removeTranslators(installed)

\* initTranslations: removes the four translators from the application's
\* list, loads qt_<lang>, qt_<lang_territory>, <lang> and <lang_territory>
\* and installs each one that loaded. installTranslator prepends, so the
\* list (installed) is in search order: the one installed last comes first.
initTranslations(installed, lang_territory, qtDir, cashDir) ==
    LET lang   == truncate(lang_territory, lastIndexOf(lang_territory, Sep))
        loaded == <<[tr |-> Translators[1], file |-> load(QtName(lang), qtDir)],
                    [tr |-> Translators[2], file |-> load(QtName(lang_territory), qtDir)],
                    [tr |-> Translators[3], file |-> load(lang, cashDir)],
                    [tr |-> Translators[4], file |-> load(lang_territory, cashDir)]>>
    IN  Reverse(SelectSeq(loaded, LAMBDA e : e.file # NoFile))
            \o removeTranslators(installed)

\* QCoreApplication::translate(context, ...) asks the installed translators
\* in search order and uses the first that has the string: the Qt files
\* hold Qt's own contexts, the cash files the "cash" context (Translate).
QtTranslators == {Translators[1], Translators[2]}

translate(installed, trs) ==
    LET i == SelectInSeq(installed, LAMBDA e : e.tr \in trs)
    IN  IF i = 0 THEN NoFile ELSE installed[i].file

====
