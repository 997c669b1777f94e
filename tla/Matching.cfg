SPECIFICATION SpecWhole
PROPERTIES
    PathsMeetTheirValues BestRulesAreSelected SavedRulesSurvive PlainMeansTheSame
    RulesDoWhatTheySay StricterAcceptsLess ResultsTellTheMismatches OrderAndCaseDoNotMatter
