SPECIFICATION Spec
CONSTANTS
    PageIds <- ThreePages
    Titles <- SomeTitles
    NoRedirect = "no redirect"
    Capitalized <- ToUpper
    SectionNames <- Names
    badSectionNames <- BadNames
    Dumps <- SomeDumps
    MaxFailedDrops = 1
INVARIANTS
    TypeOK
    RerunExact
    LinksConverse
PROPERTIES
    MissingNotWrong
